---- MODULE Spec2Model ----
(***************************************************************************)
(* A model of the multi-value B+ tree index of                             *)
(* src/src/include/storage/index/bplustree.h (lines 1-1272, the per-node   *)
(* reader/writer latch variant).                                           *)
(*                                                                         *)
(* The heap of nodes is the function `nodes` (node id -> node record), the *)
(* tree's root pointer is `root_`.  Every public operation is a small      *)
(* program over a machine state m = [n, r, t, blk]: n the heap, r the root *)
(* pointer, t the calling thread's locals (with its program counter), blk  *)
(* set when the step found a latch it has to wait for.  Spec runs each     *)
(* call of a single thread to completion; SpecC interleaves the same steps *)
(* of several threads.                                                     *)
(***************************************************************************)
EXTENDS Integers, Sequences, FiniteSets, TLC

(* ---- program constants ---- *)
FAN_OUT == 10
MIN_KEYS_INNER_NODE == 4
MIN_PTR_INNER_NODE == 5
MIN_KEYS_LEAF_NODE == 5
NULL == 0
SizeofKey == 8
SizeofValue == 8
SizeofKeyNodePtrPair == 16

(* ---- bounds of the model ---- *)
MaxKey == 11
MaxVal == 2
MaxLeak == 1

Keys == 1..MaxKey
Values == 1..MaxVal
\* the keys that calls may give a value other than 1
MultiKeys == {(MaxKey \div 2) + 1}
ValuesOf(k) == IF k \in MultiKeys THEN Values ELSE {1}
\* predicates of ConditionalInsert: predicate p holds of value v iff v = p
Preds == Values
PredHolds(p, v) == v = p
Threads == {1, 2}

VARIABLES nodes, root_, th, amap, todo, own
vars == <<nodes, root_, th, amap, todo, own>>

(* ---- sequences ---- *)
Max(a, b) == IF a >= b THEN a ELSE b
\* s with x inserted before 0-based position pos (vector::insert)
InsertAt(s, pos, x) == SubSeq(s, 1, pos) \o <<x>> \o SubSeq(s, pos + 1, Len(s))
\* s without its element at 0-based position pos (vector::erase)
RemoveAt(s, pos) == SubSeq(s, 1, pos) \o SubSeq(s, pos + 2, Len(s))
Top(s) == s[Len(s)]
Pop(s) == SubSeq(s, 1, Len(s) - 1)

\* the iteration order of a value set (std::unordered_set leaves it
\* unspecified; the model fixes ascending order)
RECURSIVE SetOrder(_)
SetOrder(S) ==
  IF S = {} THEN <<>>
  ELSE LET x == CHOOSE y \in S : \A z \in S : y <= z
       IN <<x>> \o SetOrder(S \ {x})

(* ---- std::vector capacity (libstdc++ growth policy) ---- *)
\* capacity after one element is added to a vector of `size` elements
CapPush(cap, size) == IF size < cap THEN cap ELSE size + Max(size, 1)
\* capacity after a range of cnt elements is inserted
CapRange(cap, size, cnt) ==
  IF cnt = 0 \/ cap - size >= cnt THEN cap ELSE size + Max(size, cnt)

(* ---- nodes ---- *)
\* a node: leaf or inner, its entries_ (pairs <<key, value set>> in a leaf,
\* <<key, child>> in an inner node), prev_ptr_, next_ptr_ (leaf only), the
\* capacity of entries_ (inner only: the heap accounting reads it), and the
\* state of rw_latch: w (a writer holds it) and rd (number of readers)
NewLeafNode == [leaf |-> TRUE, entries |-> <<>>, prev_ptr |-> NULL, next_ptr |-> NULL,
                cap |-> 0, w |-> FALSE, rd |-> 0]
NewInnerNode == [leaf |-> FALSE, entries |-> <<>>, prev_ptr |-> NULL, next_ptr |-> NULL,
                 cap |-> 0, w |-> FALSE, rd |-> 0]
\* operator new: the first address not in use
NewId(n) == CHOOSE i \in 1..(Cardinality(DOMAIN n) + 1) :
              i \notin DOMAIN n /\ \A j \in 1..(i - 1) : j \in DOMAIN n
\* operator delete
Free(n, x) == [y \in (DOMAIN n) \ {x} |-> n[y]]
Alloc(n, x, nd) == [y \in (DOMAIN n) \cup {x} |-> IF y = x THEN nd ELSE n[y]]

GetSize(nd) == Len(nd.entries)
GetFirstKey(nd) == nd.entries[1][1]

\* std::lower_bound on the keys: the 0-based position of the first entry
\* whose key is not less than key
GetPositionToInsert(nd, key) ==
  Cardinality({i \in 1..Len(nd.entries) : nd.entries[i][1] < key})
\* std::upper_bound on the keys, minus one: the last entry with key <= key
GetPositionLessThanEqualTo(nd, key) ==
  Cardinality({i \in 1..Len(nd.entries) : nd.entries[i][1] <= key}) - 1
GetPositionGreaterThanEqualTo(nd, key) == GetPositionToInsert(nd, key)
\* 0-based position of key in the leaf, or GetSize (entries_.end())
GetPositionOfKey(nd, key) ==
  LET pos == GetPositionToInsert(nd, key)
  IN IF pos = Len(nd.entries) \/ nd.entries[pos + 1][1] # key
     THEN Len(nd.entries) ELSE pos

(* ---- LeafNode ---- *)
\* LeafNode::IsOverflow with > for >=
LeafIsOverflow_Late(nd) == GetSize(nd) > FAN_OUT
LeafIsOverflow(nd) == GetSize(nd) >= FAN_OUT
\* LeafNode::IsUnderflow letting a leaf fall one below the minimum
LeafIsUnderflow_Late(nd) == GetSize(nd) < MIN_KEYS_LEAF_NODE - 1
LeafIsUnderflow(nd) == GetSize(nd) < MIN_KEYS_LEAF_NODE
\* (size - 1) is computed in uint64_t: an empty leaf gives 2^64 - 1
LeafWillUnderflow(nd) ==
  IF GetSize(nd) = 0 THEN FALSE ELSE (GetSize(nd) - 1) < MIN_KEYS_LEAF_NODE
\* a WillOverflow that reports the overflow one entry late
LeafWillOverflow_Late(nd) == GetSize(nd) = FAN_OUT

LeafWillOverflow(nd) == GetSize(nd) = FAN_OUT - 1

HasKey(nd, key) == GetPositionOfKey(nd, key) # Len(nd.entries)
HasKeyValue(nd, key, value) ==
  LET pos == GetPositionOfKey(nd, key)
  IN IF pos = Len(nd.entries) THEN FALSE ELSE value \in nd.entries[pos + 1][2]

\* LeafNode::Insert(key, value) placing a new key behind the last entry
LeafInsert_Append(nd, key, value) ==
  LET pos == GetPositionToInsert(nd, key)
  IN IF pos < Len(nd.entries) /\ nd.entries[pos + 1][1] = key
     THEN [nd EXCEPT !.entries[pos + 1][2] = @ \cup {value}]
     ELSE [nd EXCEPT !.entries = Append(@, <<key, {value}>>)]
\* LeafNode::Insert(key, value)
LeafInsert(nd, key, value) ==
  LET pos == GetPositionToInsert(nd, key)
  IN IF pos < Len(nd.entries) /\ nd.entries[pos + 1][1] = key
     THEN [nd EXCEPT !.entries[pos + 1][2] = @ \cup {value}]
     ELSE [nd EXCEPT !.entries = InsertAt(@, pos, <<key, {value}>>)]
\* LeafNode::Insert(key, value_set)
LeafInsertSet(nd, key, value_set) ==
  LET pos == GetPositionToInsert(nd, key)
  IN IF pos < Len(nd.entries) /\ nd.entries[pos + 1][1] = key
     THEN [nd EXCEPT !.entries[pos + 1][2] = value_set]
     ELSE [nd EXCEPT !.entries = InsertAt(@, pos, <<key, value_set>>)]

\* a Split that leaves the prev_ptr_ of the old right neighbour as it was
LeafSplit_NoBackLink(n, x) ==
  LET new == NewId(n)
      right == [NewLeafNode EXCEPT
                  !.entries = SubSeq(n[x].entries, MIN_KEYS_LEAF_NODE + 1, Len(n[x].entries)),
                  !.next_ptr = n[x].next_ptr,
                  !.prev_ptr = x]
      n1 == [n EXCEPT ![x].entries = SubSeq(@, 1, MIN_KEYS_LEAF_NODE),
                      ![x].next_ptr = new]
  IN [n |-> Alloc(n1, new, right), new |-> new]

\* LeafNode::Split on node x of heap n: [n |-> the heap, new |-> the new node]
LeafSplit(n, x) ==
  LET new == NewId(n)
      nxt == n[x].next_ptr
      right == [NewLeafNode EXCEPT
                  !.entries = SubSeq(n[x].entries, MIN_KEYS_LEAF_NODE + 1, Len(n[x].entries)),
                  !.next_ptr = nxt,
                  !.prev_ptr = x]
      n1 == [n EXCEPT ![x].entries = SubSeq(@, 1, MIN_KEYS_LEAF_NODE),
                      ![x].next_ptr = new]
      n2 == IF nxt # NULL /\ nxt \in DOMAIN n1
            THEN [n1 EXCEPT ![nxt].prev_ptr = new] ELSE n1
  IN [n |-> Alloc(n2, new, right), new |-> new]

\* LeafNode::SatisfiesPredicate testing only the first value of the set
SatisfiesPredicate_FirstOnly(nd, key, predicate) ==
  LET pos == GetPositionOfKey(nd, key)
  IN IF pos = Len(nd.entries) THEN FALSE
     ELSE PredHolds(predicate, SetOrder(nd.entries[pos + 1][2])[1])

SatisfiesPredicate(nd, key, predicate) ==
  LET pos == GetPositionOfKey(nd, key)
  IN IF pos = Len(nd.entries) THEN FALSE
     ELSE \E v \in nd.entries[pos + 1][2] : PredHolds(predicate, v)

\* the values ScanAndPopulateResults appends to results, in order
ScanAndPopulateResults(nd, key) ==
  LET pos == GetPositionOfKey(nd, key)
  IN IF pos = Len(nd.entries) THEN <<>> ELSE SetOrder(nd.entries[pos + 1][2])

\* LeafNode::GetHeapSpaceSubtree leaving out the keys
LeafGetHeapSpaceSubtree_ValuesOnly(nd) ==
  LET RECURSIVE Sum(_)
      Sum(i) == IF i = 0 THEN 0
                ELSE Cardinality(nd.entries[i][2]) * SizeofValue + Sum(i - 1)
  IN Sum(Len(nd.entries))
\* LeafNode::GetHeapSpaceSubtree
LeafGetHeapSpaceSubtree(nd) ==
  LET RECURSIVE Sum(_)
      Sum(i) == IF i = 0 THEN 0
                ELSE Cardinality(nd.entries[i][2]) * SizeofValue + SizeofKey + Sum(i - 1)
  IN Sum(Len(nd.entries))

\* LeafNode::DeleteEntry erasing the key with all its values
LeafDeleteEntry_WholeKey(nd, key, value) ==
  [nd EXCEPT !.entries = RemoveAt(@, GetPositionOfKey(nd, key))]

\* LeafNode::DeleteEntry; the caller has checked HasKeyValue
LeafDeleteEntry(nd, key, value) ==
  LET pos == GetPositionOfKey(nd, key)
      rest == nd.entries[pos + 1][2] \ {value}
  IN IF rest = {} THEN [nd EXCEPT !.entries = RemoveAt(@, pos)]
     ELSE [nd EXCEPT !.entries[pos + 1][2] = rest]

(* ---- InnerNode ---- *)
InnerIsOverflow(nd) == GetSize(nd) >= FAN_OUT
InnerIsUnderflow(nd) ==
  GetSize(nd) + (IF nd.prev_ptr # NULL THEN 1 ELSE 0) < MIN_PTR_INNER_NODE
InnerWillUnderflow(nd) == ((GetSize(nd) + 1) - 1) < MIN_PTR_INNER_NODE
InnerWillOverflow(nd) == GetSize(nd) = FAN_OUT - 1

WillOverflow(nd) == IF nd.leaf THEN LeafWillOverflow(nd) ELSE InnerWillOverflow(nd)
WillUnderflow(nd) == IF nd.leaf THEN LeafWillUnderflow(nd) ELSE InnerWillUnderflow(nd)

\* InnerNode::GetPredecessor: the child left of the child covering key
\* a GetPredecessor that never finds a left sibling
GetPredecessor_None(nd, key) == NULL

GetPredecessor(nd, key) ==
  LET index == GetPositionLessThanEqualTo(nd, key)
  IN IF index = -1 THEN NULL
     ELSE IF index - 1 = -1 THEN nd.prev_ptr
     ELSE nd.entries[index][2]
\* InnerNode::GetSuccessor: the child right of the child covering key
GetSuccessor(nd, key) ==
  LET succ_index == GetPositionLessThanEqualTo(nd, key) + 1
  IN IF succ_index = Len(nd.entries) THEN NULL
     ELSE nd.entries[succ_index + 1][2]

\* InnerNode::Insert(key, node_ptr)
InnerInsert(nd, key, node_ptr) ==
  LET pos == GetPositionGreaterThanEqualTo(nd, key)
  IN [nd EXCEPT !.entries = InsertAt(@, pos, <<key, node_ptr>>),
                !.cap = CapPush(@, Len(nd.entries))]

\* InnerNode::Split on node x of heap n
InnerSplit(n, x) ==
  LET new == NewId(n)
      tail == SubSeq(n[x].entries, MIN_KEYS_INNER_NODE + 1, Len(n[x].entries))
      right == [NewInnerNode EXCEPT !.entries = tail, !.cap = CapRange(0, 0, Len(tail))]
      n1 == [n EXCEPT ![x].entries = SubSeq(@, 1, MIN_KEYS_INNER_NODE)]
  IN [n |-> Alloc(n1, new, right), new |-> new]

\* InnerNode::RemoveFirstKey: the node after the call; the key it returns is
\* GetFirstKey of the node before the call
\* a RemoveFirstKey that leaves the first pair in the node
RemoveFirstKey_KeepsPair(nd) == [nd EXCEPT !.prev_ptr = nd.entries[1][2]]

RemoveFirstKey(nd) ==
  [nd EXCEPT !.prev_ptr = nd.entries[1][2], !.entries = Tail(@)]

\* InnerNode::GetKeyNodePtrPair: 0-based position of the pair
GetKeyNodePtrPair(nd, key) ==
  LET pos == GetPositionLessThanEqualTo(nd, key)
  IN IF pos = -1 THEN Len(nd.entries) - 1 ELSE pos

\* InnerNode::GetNodePtrForKey sending the first separator itself to the left
GetNodePtrForKey_Strict(nd, key) ==
  IF key <= nd.entries[1][1] THEN nd.prev_ptr
  ELSE nd.entries[GetKeyNodePtrPair(nd, key) + 1][2]

\* InnerNode::GetNodePtrForKey
GetNodePtrForKey(nd, key) ==
  IF key < nd.entries[1][1] THEN nd.prev_ptr
  ELSE nd.entries[GetKeyNodePtrPair(nd, key) + 1][2]

\* InnerNode::ReplaceKey leaving the key as it was
ReplaceKey_Keep(nd, old_key, new_key) == nd
\* InnerNode::ReplaceKey: the node after the call
ReplaceKey(nd, old_key, new_key) ==
  [nd EXCEPT !.entries[GetPositionLessThanEqualTo(nd, old_key) + 1][1] = new_key]
\* ... and the key it returns
ReplacedKey(nd, old_key) == nd.entries[GetPositionLessThanEqualTo(nd, old_key) + 1][1]

\* InnerNode::DeleteEntry: the node after the call, and the key it returns
InnerDeleteEntry(nd, key) == [nd EXCEPT !.entries = RemoveAt(@, GetKeyNodePtrPair(nd, key))]
InnerDeletedKey(nd, key) == nd.entries[GetKeyNodePtrPair(nd, key) + 1][1]

\* Node::Append(node): entries_.insert(entries_.end(), ...)
NodeAppend(dst, src) ==
  [dst EXCEPT !.entries = @ \o src.entries,
              !.cap = IF dst.leaf THEN @ ELSE CapRange(@, Len(dst.entries), Len(src.entries))]

RECURSIVE GetHeapSpaceSubtree(_, _)
GetHeapSpaceSubtree(n, x) ==
  IF n[x].leaf THEN LeafGetHeapSpaceSubtree(n[x])
  ELSE LET RECURSIVE Kids(_)
           Kids(i) == IF i = 0 THEN 0
                      ELSE GetHeapSpaceSubtree(n, n[x].entries[i][2]) + Kids(i - 1)
       IN GetHeapSpaceSubtree(n, n[x].prev_ptr)
          + n[x].cap * SizeofKeyNodePtrPair + Kids(Len(n[x].entries))

(* ---- rw_latch (tbb::spin_rw_mutex) ---- *)
CanLockRead(nd) == ~nd.w
CanLock(nd) == ~nd.w /\ nd.rd = 0
LockRead(n, x) == [n EXCEPT ![x].rd = @ + 1]
Lock(n, x) == [n EXCEPT ![x].w = TRUE]
\* unlock() releases the writer if one holds the latch, else one reader
Unlock(n, x) ==
  IF x \notin DOMAIN n THEN n
  ELSE IF n[x].w THEN [n EXCEPT ![x].w = FALSE]
  ELSE [n EXCEPT ![x].rd = IF @ > 0 THEN @ - 1 ELSE 0]
\* unlock() of a latch nobody holds, or of a destroyed node
BadUnlock(n, x) == x \notin DOMAIN n \/ (~n[x].w /\ n[x].rd = 0)

\* BPlusTree::ReleaseNodeLocks: the heap after the call
RECURSIVE ReleaseNodeLocks(_, _)
ReleaseNodeLocks(n, locked_nodes) ==
  IF locked_nodes = <<>> THEN n
  ELSE ReleaseNodeLocks(Unlock(n, Head(locked_nodes)), Tail(locked_nodes))

\* BPlusTree::RemoveFromLockList: the heap and the list after the call
RemoveFromLockList(n, locked_nodes, tmp) ==
  LET hits == {i \in 1..Len(locked_nodes) : locked_nodes[i] = tmp}
  IN IF hits = {} THEN [n |-> n, locked |-> locked_nodes]
     ELSE LET i == CHOOSE j \in hits : \A k \in hits : j <= k
          IN [n |-> Unlock(n, tmp), locked |-> RemoveAt(locked_nodes, i - 1)]

IsSafe(nd, is_delete) == IF is_delete THEN ~WillUnderflow(nd) ELSE ~WillOverflow(nd)

(* ---- iterators ---- *)
\* first_/second_ read through an iterator that points at no entry
Garbage == -1
NullIter == [current |-> NULL, key_offset |-> 0, value_offset |-> 0,
             first |-> 0, second |-> 0]

(* ---- a thread's locals ---- *)
\* pc: where the thread is; op, key, value, unique_key, predicate: the call;
\* node, tb (node_traceback, top last), locked (locked_nodes, front first),
\* wl (write_lock_leaf), is_delete, cont (where the descent returns to);
\* ret, psat (*predicate_satisfied), res (*results), it (the iterator
\* returned); it0, steps, ev, fault: bookkeeping, see below
IdleThread ==
  [pc |-> "idle", op |-> "none", key |-> 0, value |-> 0, unique_key |-> FALSE,
   predicate |-> 0, node |-> NULL, tb |-> <<>>, locked |-> <<>>, wl |-> FALSE,
   is_delete |-> FALSE, cont |-> "none", ret |-> FALSE, psat |-> FALSE,
   res |-> <<>>, it |-> NullIter, it0 |-> NullIter, steps |-> 0,
   ev |-> {}, fault |-> "none"]

Goto(m, pc) == [m EXCEPT !.t.pc = pc]
Blocked(m) == [m EXCEPT !.blk = TRUE]
\* the thread stops: "ub" (undefined behaviour: the build may do anything)
\* or "assert" (a TERRIER_ASSERT failed)
Fault(m, kind) == [m EXCEPT !.t.pc = "fault", !.t.fault = kind]
Done(m) == [m EXCEPT !.t.pc = "done"]

(* ---- BPlusTree::FindLeafNode ---- *)
\* while (!root_->rw_latch.try_lock_read()); one turn of the loop reads
\* root_ and then tries the latch of the node it has read
StepFL_spin(m) == [m EXCEPT !.t.node = m.r, !.t.pc = "FL_try"]

\* try_lock_read() on the node read; while it fails and root_ is still that
\* node, the turns of the loop change nothing and the thread waits
StepFL_try(m) ==
  LET node == m.t.node
  IN IF node \notin DOMAIN m.n THEN Fault(m, "ub")
     ELSE IF CanLockRead(m.n[node])
     THEN [m EXCEPT !.n = LockRead(m.n, node), !.t.pc = "FL_root"]
     ELSE IF node = m.r THEN Blocked(m)
     ELSE Goto(m, "FL_spin")

\* node = root_;
StepFL_root(m) == [m EXCEPT !.t.node = m.r, !.t.pc = "FL_loop"]

\* one turn of while (!node->IsLeaf()), or the code after the loop up to
\* the return (for a leaf that is root_: up to its unlock())
StepFL_loop(m) ==
  LET node == m.t.node
      n == m.n
      UnlockParent(h) == IF m.t.tb # <<>> THEN Unlock(h, Top(m.t.tb)) ELSE h
  IN IF node \notin DOMAIN n THEN Fault(m, "ub")
     ELSE IF ~n[node].leaf THEN
       IF node # m.r /\ ~CanLockRead(n[node]) THEN Blocked(m)
       ELSE IF n[node].entries = <<>> THEN Fault(m, "ub")
       ELSE LET n1 == IF node # m.r THEN LockRead(n, node) ELSE n
            IN [m EXCEPT !.n = UnlockParent(n1),
                         !.t.tb = Append(@, node),
                         !.t.node = GetNodePtrForKey(n[node], m.t.key)]
     ELSE IF node # m.r THEN
       IF m.t.wl THEN
         IF ~CanLock(n[node]) THEN Blocked(m)
         ELSE [m EXCEPT !.n = UnlockParent(Lock(n, node)), !.t.pc = m.t.cont]
       ELSE
         IF ~CanLockRead(n[node]) THEN Blocked(m)
         ELSE [m EXCEPT !.n = UnlockParent(LockRead(n, node)), !.t.pc = m.t.cont]
     ELSE IF BadUnlock(n, node) THEN Fault(m, "ub")
     ELSE [m EXCEPT !.n = Unlock(n, node), !.t.pc = "FL_relock"]

\* node->rw_latch.lock(); for a leaf that was root_, then the return
StepFL_relock(m) ==
  LET node == m.t.node
  IN IF node \notin DOMAIN m.n THEN Fault(m, "ub")
     ELSE IF ~CanLock(m.n[node]) THEN Blocked(m)
     ELSE [m EXCEPT !.n = IF m.t.tb # <<>> THEN Unlock(Lock(m.n, node), Top(m.t.tb))
                          ELSE Lock(m.n, node),
                    !.t.pc = m.t.cont]

(* ---- BPlusTree::FindLeafNodeWrite ---- *)
\* while (!root_->rw_latch.try_lock()); one turn of the loop reads root_
\* and then tries the latch of the node it has read
StepFW_spin(m) == [m EXCEPT !.t.node = m.r, !.t.pc = "FW_try"]

\* try_lock() on the node read
StepFW_try(m) ==
  LET node == m.t.node
  IN IF node \notin DOMAIN m.n THEN Fault(m, "ub")
     ELSE IF CanLock(m.n[node])
     THEN [m EXCEPT !.n = Lock(m.n, node), !.t.pc = "FW_root"]
     ELSE IF node = m.r THEN Blocked(m)
     ELSE Goto(m, "FW_spin")

\* node = root_;
StepFW_root(m) == [m EXCEPT !.t.node = m.r, !.t.pc = "FW_loop"]

\* one turn of while (!node->IsLeaf()), or the code after the loop
StepFW_loop(m) ==
  LET node == m.t.node
      n == m.n
  IN IF node \notin DOMAIN n THEN Fault(m, "ub")
     ELSE IF node # m.r /\ ~CanLock(n[node]) THEN Blocked(m)
     ELSE
       LET n1 == IF node # m.r THEN Lock(n, node) ELSE n
       IN IF ~n[node].leaf THEN
            IF n[node].entries = <<>> THEN Fault(m, "ub")
            ELSE LET rel == m.t.locked # <<>> /\ IsSafe(n1[node], m.t.is_delete)
                 IN [m EXCEPT !.n = IF rel THEN ReleaseNodeLocks(n1, m.t.locked) ELSE n1,
                              !.t.locked = IF rel THEN <<node>> ELSE Append(@, node),
                              !.t.tb = Append(@, node),
                              !.t.node = GetNodePtrForKey(n[node], m.t.key)]
          ELSE LET lk == Append(m.t.locked, node)
                   rel == IsSafe(n1[node], m.t.is_delete)
               IN [m EXCEPT !.n = IF rel THEN ReleaseNodeLocks(n1, lk) ELSE n1,
                            !.t.locked = IF rel THEN <<>> ELSE lk,
                            !.t.pc = m.t.cont]

(* ---- structural modifier: insert ---- *)
\* the loop of InnerNode::InsertNodePtr, from current_node on:
\* [n, r, tb, fault]
RECURSIVE InsertNodePtrLoop(_, _, _, _, _, _)
InsertNodePtrLoop(n, r, current_node, child_node, middle_key, tb) ==
  IF ~(current_node = r \/ tb # <<>>)
  THEN [n |-> n, r |-> r, tb |-> tb, fault |-> "none"]
  ELSE
    LET \* new_root = new InnerNode() above current_node and new_node
        NewRoot(n2, new_root, new_node, key2) ==
          [n |-> Alloc(n2, new_root, [InnerInsert(NewInnerNode, key2, new_node)
                                        EXCEPT !.prev_ptr = current_node]),
           r |-> new_root, tb |-> tb,
           fault |-> IF tb # <<>> THEN "assert" ELSE "none"]
        \* after new_node->RemoveFirstKey() has returned key2
        Moved(n2, new_node, key2) ==
          IF current_node = r THEN NewRoot(n2, NewId(n2), new_node, key2)
          ELSE InsertNodePtrLoop(n2, r, Top(tb), new_node, key2, Pop(tb))
        \* after current_node->Split()
        Splitted(sp) ==
          Moved([sp.n EXCEPT ![sp.new] = RemoveFirstKey(@)], sp.new,
                GetFirstKey(sp.n[sp.new]))
        \* after current_node->Insert(middle_key, child_node)
        Inserted(n1) ==
          IF ~InnerIsOverflow(n1[current_node])
          THEN [n |-> n1, r |-> r, tb |-> tb, fault |-> "none"]
          ELSE Splitted(InnerSplit(n1, current_node))
    IN Inserted([n EXCEPT ![current_node] = InnerInsert(@, middle_key, child_node)])

\* InnerNode::InsertNodePtr called on parent_node
InsertNodePtr(n, r, parent_node, child_node, tb) ==
  IF ~n[child_node].leaf THEN [n |-> n, r |-> r, tb |-> tb, fault |-> "assert"]
  ELSE InsertNodePtrLoop(n, r, parent_node, child_node, GetFirstKey(n[child_node]), tb)

\* BPlusTree::InsertAndPropagate: [n, r, tb, fault, ev]
InsertAndPropagate(n, r, key, value, insert_node, tb) ==
  LET \* new_root = new InnerNode() above insert_node and child_node
      NewRoot(n2, new_root, child_node) ==
        [n |-> Alloc(n2, new_root,
                     [InnerInsert(NewInnerNode, GetFirstKey(n2[child_node]), child_node)
                        EXCEPT !.prev_ptr = insert_node]),
         r |-> new_root, tb |-> tb, fault |-> "none", ev |-> {"split", "newroot"}]
      \* after parent_node->InsertNodePtr(child_node, &root_, node_traceback)
      Propagated(n2, p) ==
        [n |-> p.n, r |-> p.r, tb |-> p.tb, fault |-> p.fault,
         ev |-> {"split"} \cup (IF p.r # r THEN {"newroot"} ELSE {})
                \cup (IF Cardinality(DOMAIN p.n) > Cardinality(DOMAIN n2)
                      THEN {"innersplit"} ELSE {})]
      \* after insert_node->Split()
      Splitted(n2, child_node) ==
        IF insert_node = r THEN NewRoot(n2, NewId(n2), child_node)
        ELSE IF tb = <<>>
        THEN [n |-> n2, r |-> r, tb |-> tb, fault |-> "ub", ev |-> {"split"}]
        ELSE Propagated(n2, InsertNodePtr(n2, r, Top(tb), child_node, Pop(tb)))
      SplitOf(sp) == Splitted(sp.n, sp.new)
      \* after insert_node->Insert(key, value)
      Inserted(n1) ==
        IF ~LeafIsOverflow(n1[insert_node])
        THEN [n |-> n1, r |-> r, tb |-> tb, fault |-> "none", ev |-> {}]
        ELSE SplitOf(LeafSplit(n1, insert_node))
  IN Inserted([n EXCEPT ![insert_node] = LeafInsert(@, key, value)])

(* ---- structural modifier: delete ---- *)
BorrowFromLeftLeaf(n, left_sibling, node, parent) ==
  LET last == n[left_sibling].entries[Len(n[left_sibling].entries)]
  IN [n EXCEPT ![left_sibling].entries = Pop(@),
               ![parent] = ReplaceKey(@, GetFirstKey(n[node]), last[1]),
               ![node] = LeafInsertSet(@, last[1], last[2])]

\* a borrow from the right leaf that leaves the parent's separator as it was
BorrowFromRightLeaf_KeepSeparator(n, right_sibling, node, parent) ==
  LET first == n[right_sibling].entries[1]
  IN [n EXCEPT ![right_sibling].entries = Tail(@),
               ![node] = LeafInsertSet(@, first[1], first[2])]

BorrowFromRightLeaf(n, right_sibling, node, parent) ==
  LET first == n[right_sibling].entries[1]
      \* after right_sibling->RemoveFirstKeyValPair()
      Removed(n1) ==
        [n1 EXCEPT ![parent] = ReplaceKey(@, first[1], GetFirstKey(n1[right_sibling])),
                   ![node] = LeafInsertSet(@, first[1], first[2])]
  IN Removed([n EXCEPT ![right_sibling].entries = Tail(@)])

\* a borrow that leaves the moved child with the left sibling as well
BorrowFromLeftInner_KeepsChild(n, left_sibling, node, parent) ==
  LET last == n[left_sibling].entries[Len(n[left_sibling].entries)]
      old_parent_key == ReplacedKey(n[parent], GetFirstKey(n[node]))
  IN [n EXCEPT ![parent] = ReplaceKey(@, GetFirstKey(n[node]), last[1]),
               ![node] = [InnerInsert(@, old_parent_key, n[node].prev_ptr)
                            EXCEPT !.prev_ptr = last[2]]]

BorrowFromLeftInner(n, left_sibling, node, parent) ==
  LET last == n[left_sibling].entries[Len(n[left_sibling].entries)]
      old_parent_key == ReplacedKey(n[parent], GetFirstKey(n[node]))
  IN [n EXCEPT ![left_sibling].entries = Pop(@),
               ![parent] = ReplaceKey(@, GetFirstKey(n[node]), last[1]),
               ![node] = [InnerInsert(@, old_parent_key, n[node].prev_ptr)
                            EXCEPT !.prev_ptr = last[2]]]

BorrowFromRightInner(n, right_sibling, node, parent) ==
  LET first == n[right_sibling].entries[1]
      old_parent_key == ReplacedKey(n[parent], first[1])
  IN [n EXCEPT ![right_sibling] = [@ EXCEPT !.entries = Tail(@), !.prev_ptr = first[2]],
               ![parent] = ReplaceKey(@, first[1], first[1]),
               ![node] = InnerInsert(@, old_parent_key, n[right_sibling].prev_ptr)]

\* coalesce src into dst (right into left)
CoalesceLeaf(n, src, dst, parent) ==
  [n EXCEPT ![parent] = InnerDeleteEntry(@, GetFirstKey(n[src])),
            ![dst] = NodeAppend(@, n[src])]

CoalesceInner(n, src, dst, parent) ==
  LET parent_key == InnerDeletedKey(n[parent], GetFirstKey(n[src]))
  IN [n EXCEPT ![parent] = InnerDeleteEntry(@, GetFirstKey(n[src])),
               ![dst] = NodeAppend(InnerInsert(@, parent_key, n[src].prev_ptr), n[src])]

\* the loop with a root that is given up while it still has a separator
RECURSIVE BalanceInner_CollapseEarly(_, _, _, _, _, _)
BalanceInner_CollapseEarly(n, r, inner_node, tb, locked, ev) ==
  IF ~(inner_node = r \/ InnerIsUnderflow(n[inner_node]))
  THEN [n |-> n, r |-> r, tb |-> tb, locked |-> locked, fault |-> "none", ev |-> ev]
  ELSE IF inner_node = r
  THEN IF GetSize(n[inner_node]) <= 1
       THEN LET Collapsed(rl) ==
                  [n |-> Free(rl.n, r), r |-> n[r].prev_ptr, tb |-> tb,
                   locked |-> rl.locked, fault |-> "none", ev |-> ev \cup {"collapse"}]
            IN Collapsed(RemoveFromLockList(n, locked, r))
       ELSE [n |-> n, r |-> r, tb |-> tb, locked |-> locked, fault |-> "none", ev |-> ev]
  ELSE IF tb = <<>> \/ n[inner_node].entries = <<>>
  THEN [n |-> n, r |-> r, tb |-> tb, locked |-> locked, fault |-> "ub", ev |-> ev]
  ELSE
    LET parent_node == Top(tb)
        tb1 == Pop(tb)
        \* RemoveFromLockList(inner_node, locked_nodes); delete inner_node
        DropNode(rl) ==
          BalanceInner_CollapseEarly(Free(rl.n, inner_node), r, parent_node, tb1, rl.locked,
                       ev \cup {"coalesceleftinner"})
        Siblings(left_inner, right_inner) ==
          IF left_inner # NULL /\ ~WillUnderflow(n[left_inner])
          THEN [n |-> BorrowFromLeftInner(n, left_inner, inner_node, parent_node), r |-> r,
                tb |-> tb1, locked |-> locked, fault |-> "none",
                ev |-> ev \cup {"borrowleftinner"}]
          ELSE IF right_inner # NULL /\ ~WillUnderflow(n[right_inner])
          THEN [n |-> BorrowFromRightInner(n, right_inner, inner_node, parent_node), r |-> r,
                tb |-> tb1, locked |-> locked, fault |-> "none",
                ev |-> ev \cup {"borrowrightinner"}]
          ELSE IF left_inner # NULL
          THEN DropNode(RemoveFromLockList(
                 CoalesceInner(n, inner_node, left_inner, parent_node), locked, inner_node))
          ELSE IF right_inner = NULL
          THEN [n |-> n, r |-> r, tb |-> tb1, locked |-> locked, fault |-> "ub", ev |-> ev]
          ELSE BalanceInner_CollapseEarly(
                 Free(CoalesceInner(n, right_inner, inner_node, parent_node), right_inner),
                 r, parent_node, tb1, locked, ev \cup {"coalescerightinner"})
    IN Siblings(GetPredecessor(n[parent_node], GetFirstKey(n[inner_node])),
                GetSuccessor(n[parent_node], GetFirstKey(n[inner_node])))

\* the inner-node loop of BPlusTree::Balance: [n, r, tb, locked, fault, ev]
RECURSIVE BalanceInner(_, _, _, _, _, _)
BalanceInner(n, r, inner_node, tb, locked, ev) ==
  IF ~(inner_node = r \/ InnerIsUnderflow(n[inner_node]))
  THEN [n |-> n, r |-> r, tb |-> tb, locked |-> locked, fault |-> "none", ev |-> ev]
  ELSE IF inner_node = r
  THEN IF GetSize(n[inner_node]) = 0
       THEN LET Collapsed(rl) ==
                  [n |-> Free(rl.n, r), r |-> n[r].prev_ptr, tb |-> tb,
                   locked |-> rl.locked, fault |-> "none", ev |-> ev \cup {"collapse"}]
            IN Collapsed(RemoveFromLockList(n, locked, r))
       ELSE [n |-> n, r |-> r, tb |-> tb, locked |-> locked, fault |-> "none", ev |-> ev]
  ELSE IF tb = <<>> \/ n[inner_node].entries = <<>>
  THEN [n |-> n, r |-> r, tb |-> tb, locked |-> locked, fault |-> "ub", ev |-> ev]
  ELSE
    LET parent_node == Top(tb)
        tb1 == Pop(tb)
        \* RemoveFromLockList(inner_node, locked_nodes); delete inner_node
        DropNode(rl) ==
          BalanceInner(Free(rl.n, inner_node), r, parent_node, tb1, rl.locked,
                       ev \cup {"coalesceleftinner"})
        Siblings(left_inner, right_inner) ==
          IF left_inner # NULL /\ ~WillUnderflow(n[left_inner])
          THEN [n |-> BorrowFromLeftInner(n, left_inner, inner_node, parent_node), r |-> r,
                tb |-> tb1, locked |-> locked, fault |-> "none",
                ev |-> ev \cup {"borrowleftinner"}]
          ELSE IF right_inner # NULL /\ ~WillUnderflow(n[right_inner])
          THEN [n |-> BorrowFromRightInner(n, right_inner, inner_node, parent_node), r |-> r,
                tb |-> tb1, locked |-> locked, fault |-> "none",
                ev |-> ev \cup {"borrowrightinner"}]
          ELSE IF left_inner # NULL
          THEN DropNode(RemoveFromLockList(
                 CoalesceInner(n, inner_node, left_inner, parent_node), locked, inner_node))
          ELSE IF right_inner = NULL
          THEN [n |-> n, r |-> r, tb |-> tb1, locked |-> locked, fault |-> "ub", ev |-> ev]
          ELSE BalanceInner(
                 Free(CoalesceInner(n, right_inner, inner_node, parent_node), right_inner),
                 r, parent_node, tb1, locked, ev \cup {"coalescerightinner"})
    IN Siblings(GetPredecessor(n[parent_node], GetFirstKey(n[inner_node])),
                GetSuccessor(n[parent_node], GetFirstKey(n[inner_node])))

\* BPlusTree::Balance: [n, r, tb, locked, fault, ev]
Balance(n, r, node, tb, locked) ==
  IF tb = <<>> \/ n[node].entries = <<>>
  THEN [n |-> n, r |-> r, tb |-> tb, locked |-> locked, fault |-> "ub", ev |-> {}]
  ELSE
    LET parent_node == Top(tb)
        \* dst->SetNextPtr(src->GetNextPtr()) and the SetPrevPtr of that leaf
        Relink(n1, dst, nxt) ==
          IF nxt # NULL THEN [n1 EXCEPT ![dst].next_ptr = nxt, ![nxt].prev_ptr = dst]
          ELSE [n1 EXCEPT ![dst].next_ptr = nxt]
        \* RemoveFromLockList(node, locked_nodes); delete node; then the loop
        DropNode(rl) ==
          BalanceInner(Free(rl.n, node), r, parent_node, Pop(tb), rl.locked,
                       {"coalesceleft"})
        Siblings(left_sibling, right_sibling) ==
          IF left_sibling # NULL /\ ~WillUnderflow(n[left_sibling])
          THEN [n |-> BorrowFromLeftLeaf(n, left_sibling, node, parent_node), r |-> r,
                tb |-> tb, locked |-> locked, fault |-> "none", ev |-> {"borrowleft"}]
          ELSE IF right_sibling # NULL /\ ~WillUnderflow(n[right_sibling])
          THEN [n |-> BorrowFromRightLeaf(n, right_sibling, node, parent_node), r |-> r,
                tb |-> tb, locked |-> locked, fault |-> "none", ev |-> {"borrowright"}]
          ELSE IF left_sibling # NULL
          THEN DropNode(RemoveFromLockList(
                 Relink(CoalesceLeaf(n, node, left_sibling, parent_node),
                        left_sibling, n[node].next_ptr),
                 locked, node))
          ELSE IF right_sibling = NULL
          THEN [n |-> n, r |-> r, tb |-> tb, locked |-> locked, fault |-> "ub", ev |-> {}]
          ELSE BalanceInner(
                 Free(Relink(CoalesceLeaf(n, right_sibling, node, parent_node),
                             node, n[right_sibling].next_ptr),
                      right_sibling),
                 r, parent_node, Pop(tb), locked, {"coalesceright"})
    IN Siblings(GetPredecessor(n[parent_node], GetFirstKey(n[node])),
                GetSuccessor(n[parent_node], GetFirstKey(n[node])))

(* ---- IndexIterator ---- *)
ValidPos(n, c, k, v) ==
  /\ c \in DOMAIN n
  /\ n[c].leaf
  /\ k < Len(n[c].entries)
  /\ v < Cardinality(n[c].entries[k + 1][2])

\* IndexIterator(c, k, v): first_ and second_ are read from the entry; with
\* no entry at the offsets the read is of whatever lies there
IndexIterator(n, c, k, v) ==
  IF c = NULL THEN NullIter
  ELSE IF ValidPos(n, c, k, v)
  THEN [current |-> c, key_offset |-> k, value_offset |-> v,
        first |-> n[c].entries[k + 1][1],
        second |-> SetOrder(n[c].entries[k + 1][2])[v + 1]]
  ELSE [current |-> c, key_offset |-> k, value_offset |-> v,
        first |-> Garbage, second |-> Garbage]

\* IndexIterator::operator==
IterEq(a, b) ==
  a.current = b.current /\ a.key_offset = b.key_offset /\ a.value_offset = b.value_offset

\* the iterator reads no entry it does not point at
IterOk(n, it) ==
  it.current = NULL \/ ValidPos(n, it.current, it.key_offset, it.value_offset)

\* IndexIterator::operator++ on a valid position: the iterator after it
Increment(n, it) ==
  LET c == it.current
      k == it.key_offset
      v == it.value_offset
      vs == Cardinality(n[c].entries[k + 1][2])
  IN IF k < GetSize(n[c]) - 1
     THEN IF v < vs - 1 THEN IndexIterator(n, c, k, v + 1)
          ELSE IndexIterator(n, c, k + 1, 0)
     ELSE IF v < vs - 1 THEN IndexIterator(n, c, k, v + 1)
          ELSE IndexIterator(n, n[c].next_ptr, 0, 0)

\* operator-- stepping back to the first value of the previous key
Decrement_FirstValue(n, it) ==
  LET c == it.current
      k == it.key_offset
      v == it.value_offset
  IN IF k > 0
     THEN IF v > 0 THEN IndexIterator(n, c, k, v - 1)
          ELSE IndexIterator(n, c, k - 1, 0)
     ELSE IF v > 0 THEN IndexIterator(n, c, k, v - 1)
          ELSE LET p == n[c].prev_ptr
               IN IF p # NULL
                  THEN IndexIterator(n, p, GetSize(n[p]) - 1,
                         Cardinality(n[p].entries[GetSize(n[p])][2]) - 1)
                  ELSE IndexIterator(n, NULL, 0, 0)

\* IndexIterator::operator-- on a valid position: the iterator after it
Decrement(n, it) ==
  LET c == it.current
      k == it.key_offset
      v == it.value_offset
  IN IF k > 0
     THEN IF v > 0 THEN IndexIterator(n, c, k, v - 1)
          ELSE IndexIterator(n, c, k - 1, Cardinality(n[c].entries[k][2]) - 1)
     ELSE IF v > 0 THEN IndexIterator(n, c, k, v - 1)
          ELSE LET p == n[c].prev_ptr
               IN IF p # NULL
                  THEN IndexIterator(n, p, GetSize(n[p]) - 1,
                         Cardinality(n[p].entries[GetSize(n[p])][2]) - 1)
                  ELSE IndexIterator(n, NULL, 0, 0)

\* the leaf Begin() walks down to
RECURSIVE LeftmostLeaf(_, _)
LeftmostLeaf(n, x) == IF n[x].leaf THEN x ELSE LeftmostLeaf(n, n[x].prev_ptr)

\* BPlusTree::Begin()
Begin(n, r) == IF r = NULL THEN NullIter ELSE IndexIterator(n, LeftmostLeaf(n, r), 0, 0)
\* BPlusTree::End()
End == IndexIterator(<<>>, NULL, 0, 0)

\* Begin(key) without the step to the next leaf
BeginAt_NoHop(n, node, key) ==
  IF GetSize(n[node]) = 0 THEN End
  ELSE LET pos == GetPositionToInsert(n[node], key)
       IN IF pos >= GetSize(n[node]) THEN End
          ELSE IndexIterator(n, node, pos, 0)

\* the body of Begin(key) after the descent has returned node
BeginAt(n, node, key) ==
  IF GetSize(n[node]) = 0 THEN End
  ELSE LET pos == GetPositionToInsert(n[node], key)
       IN IF pos >= GetSize(n[node]) THEN IndexIterator(n, n[node].next_ptr, 0, 0)
          ELSE IndexIterator(n, node, pos, 0)

\* the body of End(key) after the descent has returned node
EndAt(n, node, key) ==
  IF GetSize(n[node]) = 0 THEN End
  ELSE LET pos == GetPositionLessThanEqualTo(n[node], key)
           nd == IF pos = -1 THEN n[node].prev_ptr ELSE node
       IN IF nd = NULL THEN IndexIterator(n, NULL, 0, 0)
          ELSE LET p == IF pos = -1 THEN GetSize(n[nd]) - 1 ELSE pos
                   val_off == Cardinality(n[nd].entries[Len(n[nd].entries)][2]) - 1
               IN IndexIterator(n, nd, p, val_off)

\* for (it = Begin(); !(it == End()); ++it) visited += (it.first_, it.second_):
\* [res |-> the pairs visited, fault]
RECURSIVE ScanFrom(_, _, _)
ScanFrom(n, it, acc) ==
  IF IterEq(it, End) THEN [res |-> acc, fault |-> "none"]
  ELSE IF ~IterOk(n, it) THEN [res |-> acc, fault |-> "ub"]
  ELSE ScanFrom(n, Increment(n, it), Append(acc, <<it.first, it.second>>))

(* ---- the public operations, step by step ---- *)
\* the conflict test without the unique_key clause
Conflict_IgnoreUnique(nd, t) == HasKeyValue(nd, t.key, t.value)

\* the conflict test of Insert: HasKeyValue || (unique_key && HasKey)
Conflict(nd, t) ==
  HasKeyValue(nd, t.key, t.value) \/ (t.unique_key /\ HasKey(nd, t.key))

\* InsertAndPropagate as a step of thread t
DoInsertAndPropagate(m) ==
  LET Propagated(p) ==
        [m EXCEPT !.n = p.n, !.r = p.r, !.t.tb = p.tb, !.t.ev = @ \cup p.ev,
                  !.t.fault = p.fault]
  IN Propagated(InsertAndPropagate(m.n, m.r, m.t.key, m.t.value, m.t.node, m.t.tb))

\* the slow path: release the leaf, clear the traceback, descend again
Redescend(m, is_delete, cont) ==
  [m EXCEPT !.t.tb = <<>>, !.t.locked = <<>>, !.t.is_delete = is_delete,
            !.t.cont = cont, !.t.pc = "FW_spin", !.t.ev = @ \cup {"slow"}]

Finish(m, ret) ==
  IF m.t.fault # "none" THEN [m EXCEPT !.t.pc = "fault"]
  ELSE [m EXCEPT !.t.pc = "done", !.t.ret = ret]

\* Insert, after FindLeafNode has returned insert_node write-latched
StepI_check(m) ==
  LET node == m.t.node
      Unlocked(m1) == [m1 EXCEPT !.n = Unlock(m1.n, node)]
  IN IF node \notin DOMAIN m.n THEN Fault(m, "ub")
     ELSE IF Conflict(m.n[node], m.t)
     THEN Finish(Unlocked(m), FALSE)
     ELSE IF ~WillOverflow(m.n[node])
     THEN Finish(Unlocked(DoInsertAndPropagate(m)), TRUE)
     ELSE Redescend(Unlocked(m), FALSE, "I_check2")

\* Insert, after FindLeafNodeWrite has returned
StepI_check2(m) ==
  LET node == m.t.node
      Released(m1) == [m1 EXCEPT !.n = ReleaseNodeLocks(m1.n, m.t.locked),
                                 !.t.locked = <<>>]
  IN IF node \notin DOMAIN m.n THEN Fault(m, "ub")
     ELSE IF Conflict(m.n[node], m.t)
     THEN Finish(Released(m), FALSE)
     ELSE Finish(Released(DoInsertAndPropagate(m)), TRUE)

\* ConditionalInsert storing the pair before it reports the predicate
StepCI_check_StoreFirst(m) ==
  LET node == m.t.node
      Unlocked(m1) == [m1 EXCEPT !.n = Unlock(m1.n, node)]
  IN IF node \notin DOMAIN m.n THEN Fault(m, "ub")
     ELSE IF SatisfiesPredicate(m.n[node], m.t.key, m.t.predicate)
     THEN Finish(Unlocked([m EXCEPT !.n[node] = LeafInsert(@, m.t.key, m.t.value),
                                    !.t.psat = TRUE]), FALSE)
     ELSE IF ~WillOverflow(m.n[node])
     THEN Finish(Unlocked(DoInsertAndPropagate([m EXCEPT !.t.psat = FALSE])), TRUE)
     ELSE Redescend(Unlocked([m EXCEPT !.t.psat = FALSE]), FALSE, "CI_check2")

\* ConditionalInsert, after FindLeafNode has returned
StepCI_check(m) ==
  LET node == m.t.node
      Unlocked(m1) == [m1 EXCEPT !.n = Unlock(m1.n, node)]
  IN IF node \notin DOMAIN m.n THEN Fault(m, "ub")
     ELSE IF SatisfiesPredicate(m.n[node], m.t.key, m.t.predicate)
     THEN Finish(Unlocked([m EXCEPT !.t.psat = TRUE]), FALSE)
     ELSE IF ~WillOverflow(m.n[node])
     THEN Finish(Unlocked(DoInsertAndPropagate([m EXCEPT !.t.psat = FALSE])), TRUE)
     ELSE Redescend(Unlocked([m EXCEPT !.t.psat = FALSE]), FALSE, "CI_check2")

\* a ConditionalInsert that, like Insert, refuses a pair that is stored
StepCI_check2_Rejects(m) ==
  LET node == m.t.node
      Released(m1) == [m1 EXCEPT !.n = ReleaseNodeLocks(m1.n, m.t.locked),
                                 !.t.locked = <<>>]
  IN IF node \notin DOMAIN m.n THEN Fault(m, "ub")
     ELSE IF SatisfiesPredicate(m.n[node], m.t.key, m.t.predicate)
     THEN Finish(Released([m EXCEPT !.t.psat = TRUE]), FALSE)
     ELSE IF HasKeyValue(m.n[node], m.t.key, m.t.value)
     THEN Finish(Released([m EXCEPT !.t.psat = FALSE]), FALSE)
     ELSE Finish(Released(DoInsertAndPropagate([m EXCEPT !.t.psat = FALSE])), TRUE)

\* ConditionalInsert, after FindLeafNodeWrite has returned
StepCI_check2(m) ==
  LET node == m.t.node
      Released(m1) == [m1 EXCEPT !.n = ReleaseNodeLocks(m1.n, m.t.locked),
                                 !.t.locked = <<>>]
  IN IF node \notin DOMAIN m.n THEN Fault(m, "ub")
     ELSE IF SatisfiesPredicate(m.n[node], m.t.key, m.t.predicate)
     THEN Finish(Released([m EXCEPT !.t.psat = TRUE]), FALSE)
     ELSE Finish(Released(DoInsertAndPropagate([m EXCEPT !.t.psat = FALSE])), TRUE)

\* GetValue, after FindLeafNode has returned
StepG_scan(m) ==
  LET node == m.t.node
  IN IF node \notin DOMAIN m.n THEN Fault(m, "ub")
     ELSE Finish([m EXCEPT !.t.res = @ \o ScanAndPopulateResults(m.n[node], m.t.key),
                           !.n = Unlock(m.n, node)], FALSE)

\* Delete, after FindLeafNode has returned node write-latched
StepD_check(m) ==
  LET node == m.t.node
      Unlocked(m1) == [m1 EXCEPT !.n = Unlock(m1.n, node)]
      Deleted == [m EXCEPT !.n[node] = LeafDeleteEntry(@, m.t.key, m.t.value)]
  IN IF node \notin DOMAIN m.n THEN Fault(m, "ub")
     ELSE IF ~HasKeyValue(m.n[node], m.t.key, m.t.value)
     THEN Finish(Unlocked(m), FALSE)
     ELSE IF node = m.r
     THEN Finish(Unlocked(Deleted), TRUE)
     ELSE IF WillUnderflow(m.n[node])
     THEN [m EXCEPT !.n = Unlock(m.n, node), !.t.pc = "D_entry"]
     ELSE Finish(Unlocked(Deleted), TRUE)

\* Delete: node->DeleteEntry(key, value) after the latch was released, then
\* the traceback is cleared for the second descent
StepD_entry(m) ==
  LET node == m.t.node
  IN IF node \notin DOMAIN m.n THEN Fault(m, "ub")
     ELSE IF ~HasKeyValue(m.n[node], m.t.key, m.t.value) THEN Fault(m, "ub")
     ELSE Redescend([m EXCEPT !.n[node] = LeafDeleteEntry(@, m.t.key, m.t.value)],
                    TRUE, "D_balance")

\* a Delete that repairs the leaf after every slow-path delete
StepD_balance_Always(m) ==
  LET node == m.t.node
      Balanced(b) ==
        [m EXCEPT !.n = ReleaseNodeLocks(b.n, b.locked), !.r = b.r,
                  !.t.tb = b.tb, !.t.locked = <<>>, !.t.ev = @ \cup b.ev,
                  !.t.fault = b.fault]
  IN IF node \notin DOMAIN m.n THEN Fault(m, "ub")
     ELSE IF node = m.r
     THEN Finish([m EXCEPT !.n = ReleaseNodeLocks(m.n, m.t.locked), !.t.locked = <<>>], TRUE)
     ELSE Finish(Balanced(Balance(m.n, m.r, node, m.t.tb, m.t.locked)), TRUE)

\* Delete, after FindLeafNodeWrite has returned
StepD_balance(m) ==
  LET node == m.t.node
      Balanced(b) ==
        [m EXCEPT !.n = ReleaseNodeLocks(b.n, b.locked), !.r = b.r,
                  !.t.tb = b.tb, !.t.locked = <<>>, !.t.ev = @ \cup b.ev,
                  !.t.fault = b.fault]
  IN IF node \notin DOMAIN m.n THEN Fault(m, "ub")
     ELSE IF node = m.r \/ ~LeafIsUnderflow(m.n[node])
     THEN Finish([m EXCEPT !.n = ReleaseNodeLocks(m.n, m.t.locked), !.t.locked = <<>>], TRUE)
     ELSE Finish(Balanced(Balance(m.n, m.r, node, m.t.tb, m.t.locked)), TRUE)

\* Begin(key), after FindLeafNode has returned: the latch is not released
StepBK_pos(m) ==
  LET Positioned(it) ==
        [m EXCEPT !.t.it = it, !.t.fault = IF IterOk(m.n, it) THEN "none" ELSE "ub"]
  IN Finish(Positioned(BeginAt(m.n, m.t.node, m.t.key)), FALSE)

\* End(key), after FindLeafNode has returned: the latch is not released
StepEK_pos(m) ==
  LET Positioned(it) ==
        [m EXCEPT !.t.it = it, !.t.fault = IF IterOk(m.n, it) THEN "none" ELSE "ub"]
  IN Finish(Positioned(EndAt(m.n, m.t.node, m.t.key)), FALSE)

\* one step of the thread of m
Step(m) ==
  CASE m.t.pc = "FL_spin" -> StepFL_spin(m)
    [] m.t.pc = "FL_try" -> StepFL_try(m)
    [] m.t.pc = "FL_root" -> StepFL_root(m)
    [] m.t.pc = "FL_loop" -> StepFL_loop(m)
    [] m.t.pc = "FL_relock" -> StepFL_relock(m)
    [] m.t.pc = "FW_spin" -> StepFW_spin(m)
    [] m.t.pc = "FW_try" -> StepFW_try(m)
    [] m.t.pc = "FW_root" -> StepFW_root(m)
    [] m.t.pc = "FW_loop" -> StepFW_loop(m)
    [] m.t.pc = "I_check" -> StepI_check(m)
    [] m.t.pc = "I_check2" -> StepI_check2(m)
    [] m.t.pc = "CI_check" -> StepCI_check(m)
    [] m.t.pc = "CI_check2" -> StepCI_check2(m)
    [] m.t.pc = "G_scan" -> StepG_scan(m)
    [] m.t.pc = "D_check" -> StepD_check(m)
    [] m.t.pc = "D_entry" -> StepD_entry(m)
    [] m.t.pc = "D_balance" -> StepD_balance(m)
    [] m.t.pc = "BK_pos" -> StepBK_pos(m)
    [] m.t.pc = "EK_pos" -> StepEK_pos(m)

Running(t) == t.pc \notin {"idle", "done", "fault"}

\* a call run until it returns, faults or has to wait for a latch
RECURSIVE Run(_)
Run(m) == IF ~Running(m.t) \/ m.blk THEN m ELSE Run(Step(m))

(* ---- calls ---- *)
Call(op, key, value, unique_key, predicate) ==
  [IdleThread EXCEPT !.pc = "FL_spin", !.op = op, !.key = key, !.value = value,
     !.unique_key = unique_key, !.predicate = predicate,
     !.wl = op \in {"Insert", "ConditionalInsert", "Delete"},
     !.cont = CASE op = "Insert" -> "I_check"
                [] op = "ConditionalInsert" -> "CI_check"
                [] op = "Delete" -> "D_check"
                [] op = "GetValue" -> "G_scan"
                [] op = "BeginKey" -> "BK_pos"
                [] op = "EndKey" -> "EK_pos"]

\* the abstract map Key -> set of Value after the call of t has returned
AbstractAfter(am, t) ==
  CASE t.op = "Insert" ->
         IF t.value \in am[t.key] \/ (t.unique_key /\ am[t.key] # {}) THEN am
         ELSE [am EXCEPT ![t.key] = @ \cup {t.value}]
    [] t.op = "ConditionalInsert" ->
         IF \E w \in am[t.key] : PredHolds(t.predicate, w) THEN am
         ELSE [am EXCEPT ![t.key] = @ \cup {t.value}]
    [] t.op = "Delete" -> [am EXCEPT ![t.key] = @ \ {t.value}]
    [] OTHER -> am

\* latches held in the heap
RECURSIVE HeldIn(_, _)
HeldIn(n, S) ==
  IF S = {} THEN 0
  ELSE LET x == CHOOSE y \in S : TRUE
       IN (IF n[x].w THEN 1 ELSE 0) + n[x].rd + HeldIn(n, S \ {x})
Held(n) == HeldIn(n, DOMAIN n)

\* own[t][x]: the latches of node x that thread t has taken and not given
\* back (bookkeeping: the code keeps no such record)
NoLatch == [w |-> FALSE, rd |-> 0]
NoneOwned(n) == [t \in Threads |-> [x \in DOMAIN n |-> NoLatch]]
\* after a step of thread t that has taken the heap from n0 to n1: what the
\* step locked is t's, what it unlocked is no longer t's, and the latch of a
\* destroyed node is nobody's
OwnAfter(o, t, n0, n1) ==
  [u \in Threads |->
     [x \in DOMAIN n1 |->
        IF x \notin DOMAIN n0 THEN NoLatch
        ELSE IF u # t THEN o[u][x]
        ELSE [w |-> IF n0[x].w = n1[x].w THEN o[u][x].w ELSE n1[x].w,
              rd |-> Max(0, o[u][x].rd + n1[x].rd - n0[x].rd)]]]

(* ---- Spec: one thread, each call run to its return ---- *)
Init ==
  /\ nodes = (1 :> NewLeafNode)
  /\ root_ = 1
  /\ th = [t \in Threads |-> IdleThread]
  /\ amap = [k \in Keys |-> {}]
  /\ todo = [t \in Threads |-> <<>>]
  /\ own = NoneOwned(nodes)

RunCall(c) ==
  \E m \in {Run([n |-> nodes, r |-> root_, t |-> c, blk |-> FALSE])} :
     /\ nodes' = m.n
     /\ root_' = m.r
     /\ th' = [th EXCEPT ![1] = m.t]
     /\ amap' = IF m.t.pc = "done" THEN AbstractAfter(amap, m.t) ELSE amap
     /\ own' = OwnAfter(own, 1, nodes, m.n)
     /\ UNCHANGED todo

Insert(key, value, unique_key) ==
  /\ th[1].pc = "idle"
  /\ RunCall(Call("Insert", key, value, unique_key, 0))

ConditionalInsert(key, value, predicate) ==
  /\ th[1].pc = "idle"
  /\ RunCall(Call("ConditionalInsert", key, value, FALSE, predicate))

Delete(key, value) ==
  /\ th[1].pc = "idle"
  /\ RunCall(Call("Delete", key, value, FALSE, 0))

GetValue(key) ==
  /\ th[1].pc = "idle"
  /\ RunCall(Call("GetValue", key, 0, FALSE, 0))

BeginKey(key) ==
  /\ th[1].pc = "idle"
  /\ Held(nodes) < MaxLeak
  /\ RunCall(Call("BeginKey", key, 0, FALSE, 0))

EndKey(key) ==
  /\ th[1].pc = "idle"
  /\ Held(nodes) < MaxLeak
  /\ RunCall(Call("EndKey", key, 0, FALSE, 0))

\* it = Begin()
BeginAll ==
  /\ th[1].pc = "idle"
  /\ \E it \in {Begin(nodes, root_)} :
        th' = [th EXCEPT ![1] = [IdleThread EXCEPT
                 !.op = "Begin", !.it = it,
                 !.pc = IF IterOk(nodes, it) THEN "done" ELSE "fault",
                 !.fault = IF IterOk(nodes, it) THEN "none" ELSE "ub"]]
  /\ UNCHANGED <<nodes, root_, amap, todo, own>>

\* ++it on the iterator a Begin() or a ++ has left
Inc ==
  /\ th[1].pc = "done"
  /\ th[1].op \in {"Begin", "Inc"}
  /\ ~IterEq(th[1].it, End)
  /\ th' = [th EXCEPT ![1].op = "Inc", ![1].it0 = th[1].it,
                      ![1].it = Increment(nodes, th[1].it),
                      ![1].steps = th[1].steps + 1]
  /\ UNCHANGED <<nodes, root_, amap, todo, own>>

\* --it right after a ++it; on End() the assertion of operator-- fails
\* (or, without assertions, a null pointer is dereferenced)
Dec ==
  /\ th[1].pc = "done"
  /\ th[1].op = "Inc"
  /\ th' = IF IterEq(th[1].it, End)
           THEN [th EXCEPT ![1].op = "Dec", ![1].pc = "fault", ![1].fault = "assert"]
           ELSE [th EXCEPT ![1].op = "Dec", ![1].it = Decrement(nodes, th[1].it)]
  /\ UNCHANGED <<nodes, root_, amap, todo, own>>

\* the scan loop of the tests, from Begin() until the iterator equals End()
ScanAll ==
  /\ th[1].pc = "idle"
  /\ \E sc \in {ScanFrom(nodes, Begin(nodes, root_), <<>>)} :
        th' = [th EXCEPT ![1] = [IdleThread EXCEPT
                 !.op = "Scan", !.res = sc.res, !.steps = Len(sc.res),
                 !.pc = IF sc.fault = "none" THEN "done" ELSE "fault",
                 !.fault = sc.fault]]
  /\ UNCHANGED <<nodes, root_, amap, todo, own>>

\* the caller takes the result
Return ==
  /\ th[1].pc = "done"
  /\ th' = [th EXCEPT ![1] = IdleThread]
  /\ UNCHANGED <<nodes, root_, amap, todo, own>>

Next ==
  \/ \E k \in Keys : \E v \in ValuesOf(k) : \E u \in BOOLEAN : Insert(k, v, u)
  \/ \E k \in Keys : \E v \in ValuesOf(k) : \E p \in Preds : ConditionalInsert(k, v, p)
  \/ \E k \in Keys : \E v \in ValuesOf(k) : Delete(k, v)
  \/ \E k \in Keys : GetValue(k)
  \/ \E k \in Keys : BeginKey(k)
  \/ \E k \in Keys : EndKey(k)
  \/ BeginAll
  \/ Inc
  \/ Dec
  \/ ScanAll
  \/ Return

Spec == Init /\ [][Next]_vars

(* ---- SpecI: one thread that only inserts ---- *)
NextI ==
  \/ \E k \in Keys : \E v \in ValuesOf(k) : \E u \in BOOLEAN : Insert(k, v, u)
  \/ Return

SpecI == Init /\ [][NextI]_vars

(* ---- SpecD: one thread on a tree of three levels ---- *)
\* the tests of inner-node borrow and coalesce insert key_num = 55 keys in
\* ascending order: eleven leaves of five keys under two inner nodes
GrownSize == 55
\* the keys are spread so that further keys fit between them
GrownKey(i) == 2 * i
RECURSIVE Grow(_, _, _)
Grow(m, i, last) ==
  IF i > last \/ m.blk THEN m
  ELSE Grow(Run([m EXCEPT !.t = Call("Insert", GrownKey(i), 1, FALSE, 0)]), i + 1, last)
\* keys the thread deletes afterwards: the first keys of leaves on either
\* side of the root's separator
DeepKeys == {2, 22, 42, 62, 82, 102}
\* keys the thread inserts afterwards: they fall into the first leaf, which
\* splits when it has taken them all
LateKeys == {3, 5, 7, 9, 11}
AllDeepKeys == 1..(GrownKey(GrownSize) + 1)

InitD ==
  /\ th = [t \in Threads |-> IdleThread]
  /\ todo = [t \in Threads |-> <<>>]
  /\ \E g \in {Grow([n |-> (1 :> NewLeafNode), r |-> 1, t |-> IdleThread, blk |-> FALSE],
                     1, GrownSize)} :
        /\ nodes = g.n
        /\ root_ = g.r
        /\ amap = [k \in AllDeepKeys |->
                    IF \E i \in 1..GrownSize : k = GrownKey(i) THEN {1} ELSE {}]
        /\ own = NoneOwned(g.n)

NextD ==
  \/ \E k \in LateKeys : Insert(k, 1, FALSE)
  \/ \E k \in DeepKeys : Delete(k, 1)
  \/ Return

SpecD == InitD /\ [][NextD]_vars

(* ---- SpecH: one thread on trees about to gain a level or an inner node ---- *)
\* ascending inserts leave every leaf but the last with MIN_KEYS_LEAF_NODE
\* keys: the first tree has FAN_OUT leaves under its root, which is one
\* separator short of its split; the second has three levels, and the right
\* inner node under its root is one separator short of its split
\* the keys of the start trees: ten leaves under a root; a tree of three
\* levels whose last inner node is full; a tree of three levels whose root
\* and last inner node are both full
StartSizes == {MIN_KEYS_LEAF_NODE * FAN_OUT,
               MIN_KEYS_LEAF_NODE * (MIN_PTR_INNER_NODE + FAN_OUT),
               MIN_KEYS_LEAF_NODE * (MIN_PTR_INNER_NODE * (FAN_OUT - 1) + FAN_OUT)}
LargestStart == MIN_KEYS_LEAF_NODE * (MIN_PTR_INNER_NODE * (FAN_OUT - 1) + FAN_OUT)
\* keys above all stored keys: they fill the last leaf until it splits
TopKeys == {GrownKey(LargestStart) + j : j \in 1..MIN_KEYS_LEAF_NODE}
AllTallKeys == 1..(GrownKey(LargestStart) + MIN_KEYS_LEAF_NODE)
\* the ascending inserts, made in runs of GrownSize keys
RECURSIVE GrowFrom(_, _, _)
GrowFrom(m, i, last) ==
  IF i > last \/ m.blk THEN m
  ELSE GrowFrom(Grow(m, i, IF i + GrownSize - 1 < last THEN i + GrownSize - 1 ELSE last),
                i + GrownSize, last)

InitH ==
  /\ th = [t \in Threads |-> IdleThread]
  /\ todo = [t \in Threads |-> <<>>]
  /\ \E size \in StartSizes :
       \E g \in {GrowFrom([n |-> (1 :> NewLeafNode), r |-> 1, t |-> IdleThread,
                            blk |-> FALSE], 1, size)} :
          /\ nodes = g.n
          /\ root_ = g.r
          /\ amap = [k \in AllTallKeys |->
                      IF \E i \in 1..size : k = GrownKey(i) THEN {1} ELSE {}]
          /\ own = NoneOwned(g.n)

NextH ==
  \/ \E k \in TopKeys : Insert(k, 1, FALSE)
  \/ \E k \in DeepKeys : Delete(k, 1)
  \/ Return

SpecH == InitH /\ [][NextH]_vars

(* ---- SpecC: the threads of the multi-threaded insert test ---- *)
\* thread 1 inserts the even keys, thread 2 the odd keys, each (k, 1)
RECURSIVE InsertsOf(_, _)
InsertsOf(k, step) ==
  IF k > MaxKey THEN <<>>
  ELSE <<[op |-> "Insert", key |-> k, value |-> 1]>> \o InsertsOf(k + step, step)
Workload == (1 :> InsertsOf(2, 2)) @@ (2 :> InsertsOf(1, 2))

InitC ==
  /\ nodes = (1 :> NewLeafNode)
  /\ root_ = 1
  /\ th = [t \in Threads |-> IdleThread]
  /\ amap = [k \in Keys |-> {}]
  /\ todo = Workload
  /\ own = NoneOwned(nodes)

\* thread t makes its next call
ThreadCall(t) ==
  /\ th[t].pc = "idle"
  /\ todo[t] # <<>>
  /\ th' = [th EXCEPT ![t] = Call(Head(todo[t]).op, Head(todo[t]).key,
                                  Head(todo[t]).value, FALSE, 0)]
  /\ todo' = [todo EXCEPT ![t] = Tail(@)]
  /\ UNCHANGED <<nodes, root_, amap, own>>

\* thread t takes one step of its call; a step that has to wait for a latch
\* is not enabled
ThreadStep(t) ==
  /\ Running(th[t])
  /\ \E m \in {Step([n |-> nodes, r |-> root_, t |-> th[t], blk |-> FALSE])} :
       /\ ~m.blk
       /\ nodes' = m.n
       /\ root_' = m.r
       /\ th' = [th EXCEPT ![t] = m.t]
       /\ amap' = IF m.t.pc = "done" THEN AbstractAfter(amap, m.t) ELSE amap
       /\ own' = OwnAfter(own, t, nodes, m.n)
  /\ UNCHANGED todo

\* the call of thread t returns to the workload
ThreadReturn(t) ==
  /\ th[t].pc = "done"
  /\ th' = [th EXCEPT ![t] = IdleThread]
  /\ UNCHANGED <<nodes, root_, amap, todo, own>>

NextC == \E t \in Threads : ThreadCall(t) \/ ThreadStep(t) \/ ThreadReturn(t)

SpecC == InitC /\ [][NextC]_vars

(* ---- what the tree holds ---- *)
(* ---- SpecK: two threads calling on the same key ---- *)
\* the trees the calls start on are built by ascending inserts, as in SpecD
CallOf(op, key) == [op |-> op, key |-> key, value |-> 1]
Scenarios ==
  { \* the root leaf is one key short of its split; both threads insert the
    \* same new pair
    [grown |-> FAN_OUT - 1,
     todo |-> <<(<<CallOf("Insert", GrownKey(FAN_OUT))>>),
                (<<CallOf("Insert", GrownKey(FAN_OUT))>>)>>],
    \* two leaves at their minimum; both threads delete the same stored pair
    [grown |-> FAN_OUT,
     todo |-> <<(<<CallOf("Delete", GrownKey(1))>>),
                (<<CallOf("Delete", GrownKey(1))>>)>>],
    \* a thread positions an iterator and then reads; the other inserts
    [grown |-> 0,
     todo |-> <<(<<CallOf("BeginKey", GrownKey(1)), CallOf("GetValue", GrownKey(1))>>),
                (<<CallOf("Insert", GrownKey(1))>>)>>] }

InitK ==
  /\ th = [t \in Threads |-> IdleThread]
  /\ \E sc \in Scenarios :
       /\ todo = sc.todo
       /\ \E g \in {Grow([n |-> (1 :> NewLeafNode), r |-> 1, t |-> IdleThread, blk |-> FALSE],
                          1, sc.grown)} :
             /\ nodes = g.n
             /\ root_ = g.r
             /\ amap = [k \in AllDeepKeys |->
                         IF \E i \in 1..sc.grown : k = GrownKey(i) THEN {1} ELSE {}]
             /\ own = NoneOwned(g.n)

\* the call of thread t returns and the thread goes on to its next call; the
\* result of its last call stays with the thread
ThreadNext(t) ==
  /\ todo[t] # <<>>
  /\ ThreadReturn(t)

NextK == \E t \in Threads : ThreadCall(t) \/ ThreadStep(t) \/ ThreadNext(t)

\* each thread runs on its own core: a thread that can take a step takes it
SpecK ==
  /\ InitK
  /\ [][NextK]_vars
  /\ \A t \in Threads : WF_vars(ThreadCall(t)) /\ WF_vars(ThreadStep(t)) /\ WF_vars(ThreadNext(t))

(* ---- SpecL: two threads, one of them changing the shape of the tree ---- *)
ScenariosL ==
  { \* two leaves at their minimum under an inner root; a thread deletes the
    \* last key while the other reads the first
    [grown |-> FAN_OUT,
     todo |-> <<(<<CallOf("Delete", GrownKey(FAN_OUT))>>),
                (<<CallOf("GetValue", GrownKey(1))>>)>>],
    \* the root leaf is one key short of its split; a thread inserts a new
    \* key while the other deletes a stored key and inserts it again
    [grown |-> FAN_OUT - 1,
     todo |-> <<(<<CallOf("Insert", GrownKey(FAN_OUT))>>),
                (<<CallOf("Delete", GrownKey(1)), CallOf("Insert", GrownKey(1))>>)>>] }

InitL ==
  /\ th = [t \in Threads |-> IdleThread]
  /\ \E sc \in ScenariosL :
       /\ todo = sc.todo
       /\ \E g \in {Grow([n |-> (1 :> NewLeafNode), r |-> 1, t |-> IdleThread, blk |-> FALSE],
                          1, sc.grown)} :
             /\ nodes = g.n
             /\ root_ = g.r
             /\ amap = [k \in AllDeepKeys |->
                         IF \E i \in 1..sc.grown : k = GrownKey(i) THEN {1} ELSE {}]
             /\ own = NoneOwned(g.n)

SpecL == InitL /\ [][NextK]_vars

\* the leaf the descent by GetNodePtrForKey reaches for key
RECURSIVE LeafFor(_, _, _)
LeafFor(n, x, key) ==
  IF n[x].leaf THEN x ELSE LeafFor(n, GetNodePtrForKey(n[x], key), key)

\* the values GetValue(key) returns: the descent of FindLeafNode, then
\* ScanAndPopulateResults
Lookup(n, r, key) ==
  LET res == ScanAndPopulateResults(n[LeafFor(n, r, key)], key)
  IN {res[i] : i \in 1..Len(res)}

\* BPlusTree::GetHeapUsage
GetHeapUsage(n, r) == IF GetSize(n[r]) = 0 THEN 0 ELSE GetHeapSpaceSubtree(n, r)

\* the height counted in edges instead of nodes
RECURSIVE HeightFrom_Edges(_, _)
HeightFrom_Edges(n, x) == IF n[x].leaf THEN 0 ELSE 1 + HeightFrom_Edges(n, n[x].prev_ptr)
\* BPlusTree::GetHeightOfTree
RECURSIVE HeightFrom(_, _)
HeightFrom(n, x) == IF n[x].leaf THEN 1 ELSE 1 + HeightFrom(n, n[x].prev_ptr)
\* BPlusTree::GetHeightOfTree without the test for a root of size 0
GetHeightOfTree_NoEmptyCheck(n, r) == HeightFrom(n, r)
GetHeightOfTree(n, r) == IF GetSize(n[r]) = 0 THEN 0 ELSE HeightFrom(n, r)

\* the pairs of an abstract map in ascending key order, the values of a key
\* in set order
RECURSIVE PairsFrom(_, _)
PairsFrom(am, k) ==
  IF k > MaxKey THEN <<>>
  ELSE LET vs == SetOrder(am[k])
       IN [i \in 1..Len(vs) |-> <<k, vs[i]>>] \o PairsFrom(am, k + 1)
PairsOf(am) == PairsFrom(am, 1)

(* ---- claims ---- *)
Returned(op) == th[1].op = op /\ th[1].pc = "done"
\* a call of op was made in the step and has returned
Returns(op) == th[1].pc = "idle" /\ th'[1].op = op /\ th'[1].pc = "done"
Contents(n, r) == [k \in Keys |-> Lookup(n, r, k)]
RootIsInner == ~nodes[root_].leaf

\* C1: in a single thread, whatever Insert, ConditionalInsert and Delete
\* calls were made on the initially empty tree, between calls the tree
\* returns for every key exactly the value set of the abstract map, and a
\* GetValue(k) that has returned has appended each value of the abstract
\* map's set for k once and nothing else
C1_GetValueRefinesMap ==
  /\ th[1].pc = "idle" => Contents(nodes, root_) = amap
  /\ Returned("GetValue") =>
       /\ {th[1].res[i] : i \in 1..Len(th[1].res)} = amap[th[1].key]
       /\ Len(th[1].res) = Cardinality(amap[th[1].key])

C1_Witness ==
  /\ Returned("GetValue")
  /\ Len(th[1].res) = 2
  /\ RootIsInner

\* C2: Insert(k, v, unique_key) returns false iff (k, v) was stored or
\* unique_key is set and some value was stored under k; otherwise it returns
\* true and (k, v) is stored afterwards, nothing else changed
C2_InsertReturn ==
  [][Returns("Insert") =>
       LET t == th'[1]
           before == Lookup(nodes, root_, t.key)
       IN /\ t.ret = FALSE <=> (t.value \in before \/ (t.unique_key /\ before # {}))
          /\ t.ret => Contents(nodes', root_') =
                        [Contents(nodes, root_) EXCEPT ![t.key] = @ \cup {t.value}]
          /\ ~t.ret => Contents(nodes', root_') = Contents(nodes, root_)]_vars

\* a slow-path insert that split the leaf has returned true
C2_Witness ==
  /\ Returned("Insert")
  /\ th[1].ret
  /\ th[1].unique_key
  /\ {"slow", "split"} \subseteq th[1].ev

\* C3: Delete(k, v) returns true iff (k, v) was stored; after a true return
\* v is no longer among the values of k and every other stored pair is
\* still found, whichever repair the delete triggered
C3_DeleteReturn ==
  [][Returns("Delete") =>
       LET t == th'[1]
       IN /\ t.ret <=> t.value \in Lookup(nodes, root_, t.key)
          /\ t.ret => Contents(nodes', root_') =
                        [Contents(nodes, root_) EXCEPT ![t.key] = @ \ {t.value}]]_vars

C3_Witness ==
  /\ Returned("Delete")
  /\ th[1].ret
  /\ "borrowleft" \in th[1].ev
  /\ \E k \in MultiKeys : Cardinality(amap[k]) = 2

\* C4: ConditionalInsert(k, v, p) returns false with predicate_satisfied
\* set iff some value stored under k satisfied p, and then stores nothing;
\* otherwise predicate_satisfied is cleared, (k, v) is stored and it
\* returns true
C4_ConditionalInsertReturn ==
  [][Returns("ConditionalInsert") =>
       LET t == th'[1]
           sat == \E w \in Lookup(nodes, root_, t.key) : PredHolds(t.predicate, w)
       IN /\ (~t.ret /\ t.psat) <=> sat
          /\ sat => Contents(nodes', root_') = Contents(nodes, root_)
          /\ ~sat => /\ t.ret /\ ~t.psat
                     /\ Contents(nodes', root_') =
                          [Contents(nodes, root_) EXCEPT ![t.key] = @ \cup {t.value}]]_vars

\* the predicate held of a stored value other than the one offered
C4_Witness ==
  /\ Returned("ConditionalInsert")
  /\ ~th[1].ret /\ th[1].psat
  /\ th[1].value \notin amap[th[1].key]
  /\ RootIsInner

\* C5: an Insert, ConditionalInsert or Delete that returns false leaves
\* every node (entries, pointers, latches), the root, the height and the
\* heap usage as they were
C5_FalseReturnChangesNothing ==
  [][(\E op \in {"Insert", "ConditionalInsert", "Delete"} : Returns(op)) /\ ~th'[1].ret =>
       /\ nodes' = nodes
       /\ root_' = root_
       /\ GetHeightOfTree(nodes', root_') = GetHeightOfTree(nodes, root_)
       /\ GetHeapUsage(nodes', root_') = GetHeapUsage(nodes, root_)]_vars

C5_Witness ==
  /\ Returned("Insert")
  /\ ~th[1].ret
  /\ th[1].unique_key
  /\ th[1].value \notin amap[th[1].key]
  /\ RootIsInner

\* C6: the scan from Begin() by ++ until End() visits every stored pair
\* once, in ascending key order, in as many steps as pairs are stored; for a
\* tree holding no pair that is zero steps
C6_ScanVisitsAll ==
  th[1].op = "Scan" /\ th[1].pc \in {"done", "fault"} =>
    /\ th[1].pc = "done"
    /\ th[1].res = PairsOf(amap)
    /\ th[1].steps = Len(PairsOf(amap))

\* C7: Begin(k) returns an iterator at the first value of the smallest
\* stored key >= k, and End() when no stored key is >= k
C7_BeginKeyPosition ==
  th[1].op = "BeginKey" /\ th[1].pc \in {"done", "fault"} =>
    LET it == th[1].it
        ge == {k \in Keys : k >= th[1].key /\ amap[k] # {}}
    IN /\ th[1].pc = "done"
       /\ ge = {} => IterEq(it, End)
       /\ ge # {} =>
            LET k == CHOOSE x \in ge : \A y \in ge : x <= y
            IN /\ ValidPos(nodes, it.current, it.key_offset, it.value_offset)
               /\ nodes[it.current].entries[it.key_offset + 1][1] = k
               /\ it.value_offset = 0
               /\ it.first = k
               /\ it.second = SetOrder(amap[k])[1]

\* the key found lies in the leaf after the one that covers k
C7_Witness ==
  /\ Returned("BeginKey")
  /\ th[1].it.current # NULL
  /\ th[1].it.current # th[1].node
  /\ th[1].it.first > th[1].key

\* C8: End(k) returns an iterator at the last value of the greatest stored
\* key <= k, and End() when no stored key is <= k
C8_EndKeyPosition ==
  th[1].op = "EndKey" /\ th[1].pc \in {"done", "fault"} =>
    LET it == th[1].it
        le == {k \in Keys : k <= th[1].key /\ amap[k] # {}}
    IN /\ th[1].pc = "done"
       /\ le = {} => IterEq(it, End)
       /\ le # {} =>
            LET k == CHOOSE x \in le : \A y \in le : x >= y
            IN /\ ValidPos(nodes, it.current, it.key_offset, it.value_offset)
               /\ nodes[it.current].entries[it.key_offset + 1][1] = k
               /\ it.value_offset = Cardinality(amap[k]) - 1
               /\ it.first = k
               /\ it.second = SetOrder(amap[k])[Cardinality(amap[k])]

\* the position is the last pair of the last leaf
IsLastPair(n, it) ==
  /\ ValidPos(n, it.current, it.key_offset, it.value_offset)
  /\ n[it.current].next_ptr = NULL
  /\ it.key_offset = GetSize(n[it.current]) - 1
  /\ it.value_offset = Cardinality(n[it.current].entries[it.key_offset + 1][2]) - 1

\* C9 as claimed: from every position that is not End(), ++ and then --
\* give the same pair at the same (leaf, key offset, value offset)
C9_IncDecRoundTrip ==
  th[1].op = "Dec" => th[1].pc = "done" /\ th[1].it = th[1].it0

\* C9 amended: from every position that is not End() and not the last pair
\* of the last leaf, ++ and then -- give the same pair at the same (leaf,
\* key offset, value offset)
C9_IncDecRoundTripNotLast ==
  th[1].op = "Dec" /\ ~IsLastPair(nodes, th[1].it0) =>
    th[1].pc = "done" /\ th[1].it = th[1].it0

\* the round trip went over a leaf boundary, back onto a set of two values
C9_Witness ==
  /\ Returned("Dec")
  /\ th[1].it0.key_offset = GetSize(nodes[th[1].it0.current]) - 1
  /\ nodes[th[1].it0.current].next_ptr # NULL
  /\ th[1].it0.value_offset = 1

\* C10: when the threads have finished their inserts of disjoint keys, the
\* tree holds what a sequential execution of the calls leaves
AllFinished == \A t \in Threads : th[t].pc = "idle" /\ todo[t] = <<>>
C10_DisjointInsertsAllFound ==
  AllFinished => Contents(nodes, root_) = amap

(* ---- the shape of the tree ---- *)
Completed == th[1].pc \in {"idle", "done"}
Children(n, x) ==
  IF n[x].leaf THEN {}
  ELSE ({n[x].prev_ptr} \cup {n[x].entries[i][2] : i \in 1..Len(n[x].entries)}) \ {NULL}
RECURSIVE Subtree(_, _)
Subtree(n, x) == {x} \cup UNION {Subtree(n, c) : c \in Children(n, x)}
LeavesOf(n, x) == {y \in Subtree(n, x) : n[y].leaf}
InnersOf(n, x) == {y \in Subtree(n, x) : ~n[y].leaf}
KeysOfLeaf(nd) == {nd.entries[i][1] : i \in 1..Len(nd.entries)}
KeysUnder(n, x) == UNION {KeysOfLeaf(n[y]) : y \in LeavesOf(n, x)}
RECURSIVE LeafDepths(_, _, _)
LeafDepths(n, x, d) ==
  IF n[x].leaf THEN {d}
  ELSE UNION {LeafDepths(n, c, d + 1) : c \in Children(n, x)}
PairsIn(nd) ==
  LET RECURSIVE Cnt(_)
      Cnt(i) == IF i = 0 THEN 0 ELSE Cardinality(nd.entries[i][2]) + Cnt(i - 1)
  IN Cnt(Len(nd.entries))
RECURSIVE PairsInLeaves(_, _)
PairsInLeaves(n, S) ==
  IF S = {} THEN 0
  ELSE LET x == CHOOSE y \in S : TRUE IN PairsIn(n[x]) + PairsInLeaves(n, S \ {x})
RECURSIVE SeparatorsIn(_, _)
SeparatorsIn(n, S) ==
  IF S = {} THEN 0
  ELSE LET x == CHOOSE y \in S : TRUE IN GetSize(n[x]) + SeparatorsIn(n, S \ {x})
NoPairStored == \A k \in DOMAIN amap : amap[k] = {}

\* C12: a call that has returned holds no latch, and while no call is in
\* progress every latch of every node is free
C12_NoLatchAtReturn ==
  Completed => Held(nodes) = 0

C16_HeapUsageLowerBound ==
  Completed /\ ~NoPairStored =>
    GetHeapUsage(nodes, root_) >=
        SizeofKey * Cardinality(KeysUnder(nodes, root_))
      + SizeofValue * PairsInLeaves(nodes, LeavesOf(nodes, root_))
      + SizeofKeyNodePtrPair * SeparatorsIn(nodes, InnersOf(nodes, root_))

\* an inner root over leaves, one key holding two values
C16_Witness ==
  /\ Returned("Insert")
  /\ th[1].ret
  /\ RootIsInner
  /\ \E k \in MultiKeys : Cardinality(amap[k]) = 2

\* C19: after every completed call the keys of each leaf are strictly
\* increasing, no key is held by two leaves, and every entry carries a
\* value set that is not empty
C19_LeafEntriesWellFormed ==
  Completed =>
    LET L == LeavesOf(nodes, root_)
    IN /\ \A x \in L : \A i \in 1..Len(nodes[x].entries) :
            /\ nodes[x].entries[i][2] # {}
            /\ i > 1 => nodes[x].entries[i - 1][1] < nodes[x].entries[i][1]
       /\ \A x, y \in L : x # y => KeysOfLeaf(nodes[x]) \cap KeysOfLeaf(nodes[y]) = {}

\* a delete took one of the two values of a key held under an inner root
C19_Witness ==
  /\ Returned("Delete")
  /\ th[1].ret
  /\ amap[th[1].key] # {}
  /\ RootIsInner

\* C15: on a tree built from the empty tree by Insert calls only, the root
\* is a leaf iff at most FAN_OUT - 1 distinct keys are stored, however many
\* values they carry
StoredKeys == {k \in DOMAIN amap : amap[k] # {}}
C15_RootLeafIffFewKeys ==
  Completed => (nodes[root_].leaf <=> Cardinality(StoredKeys) <= FAN_OUT - 1)

\* FAN_OUT pairs under FAN_OUT - 1 keys in a root leaf
C15_Witness ==
  /\ Returned("Insert")
  /\ th[1].ret
  /\ nodes[root_].leaf
  /\ Cardinality(StoredKeys) = FAN_OUT - 1
  /\ PairsIn(nodes[root_]) = FAN_OUT

\* C17: after every completed call all leaves are at the same depth, and
\* when a pair is stored GetHeightOfTree() is the number of nodes on the
\* path from the root to a leaf
C17_LeavesAtOneDepth ==
  Completed =>
    /\ Cardinality(LeafDepths(nodes, root_, 1)) = 1
    /\ GetSize(nodes[root_]) # 0 =>
         LeafDepths(nodes, root_, 1) = {GetHeightOfTree(nodes, root_)}

\* two inner nodes were merged and the root gave way to the merged node
C17_Witness ==
  /\ Returned("Delete")
  /\ {"coalesceleftinner", "collapse"} \subseteq th[1].ev
  /\ GetHeightOfTree(nodes, root_) = 2

\* the child left of entry i of an inner node
LeftOf(nd, i) == IF i = 1 THEN nd.prev_ptr ELSE nd.entries[i - 1][2]
\* C18: after every completed call, in every inner node the separators are
\* strictly increasing, every key under the child paired with a separator s
\* is >= s and every key under the child left of s is < s; the descent by
\* GetNodePtrForKey therefore ends in the leaf that holds the key
C18_SeparatorsOrderSubtrees ==
  Completed =>
    /\ \A x \in InnersOf(nodes, root_) : \A i \in 1..Len(nodes[x].entries) :
          LET s == nodes[x].entries[i][1]
          IN /\ i > 1 => nodes[x].entries[i - 1][1] < s
             /\ \A k \in KeysUnder(nodes, nodes[x].entries[i][2]) : k >= s
             /\ \A k \in KeysUnder(nodes, LeftOf(nodes[x], i)) : k < s
    /\ \A k \in KeysUnder(nodes, root_) : k \in KeysOfLeaf(nodes[LeafFor(nodes, root_, k)])

\* an inner node took a child from its right sibling through the root
C18_Witness ==
  /\ Returned("Delete")
  /\ "borrowrightinner" \in th[1].ev
  /\ GetHeightOfTree(nodes, root_) = 3

\* the number of children of an inner node
ChildCount(nd) == GetSize(nd) + (IF nd.prev_ptr # NULL THEN 1 ELSE 0)
\* C20: after every completed call every leaf but the root holds between
\* MIN_KEYS_LEAF_NODE and FAN_OUT - 1 entries, every inner node but the
\* root has between MIN_PTR_INNER_NODE and FAN_OUT children, and an inner
\* root has between two and FAN_OUT children
C20_Occupancy ==
  Completed =>
    /\ \A x \in LeavesOf(nodes, root_) \ {root_} :
          GetSize(nodes[x]) \in MIN_KEYS_LEAF_NODE..(FAN_OUT - 1)
    /\ \A x \in InnersOf(nodes, root_) \ {root_} :
          ChildCount(nodes[x]) \in MIN_PTR_INNER_NODE..FAN_OUT
    /\ ~nodes[root_].leaf => ChildCount(nodes[root_]) \in 2..FAN_OUT

\* an inner node gave a child to its right sibling and kept the minimum
C20_Witness ==
  /\ Returned("Delete")
  /\ "borrowleftinner" \in th[1].ev
  /\ \E x \in InnersOf(nodes, root_) \ {root_} : ChildCount(nodes[x]) = MIN_PTR_INNER_NODE

\* every thread has made its last call and the call has ended
Settled == \A t \in Threads : todo[t] = <<>> /\ th[t].pc \in {"done", "fault"}
\* the two threads made the same Insert or the same Delete
SameCall ==
  /\ th[1].op = th[2].op
  /\ th[1].op \in {"Insert", "Delete"}
  /\ th[1].key = th[2].key
  /\ th[1].value = th[2].value
\* C11: two concurrent Insert(k, v) of a pair that was not stored, or two
\* concurrent Delete(k, v) of a stored pair, both return, exactly one of
\* them true, and the pair is stored once after the inserts and not at all
\* after the deletes
C11_SameKeyCallsAsOneAtATime ==
  Settled /\ SameCall =>
    /\ \A t \in Threads : th[t].pc = "done"
    /\ th[1].ret # th[2].ret
    /\ Cardinality({x \in LeavesOf(nodes, root_) : HasKeyValue(nodes[x], th[1].key, th[1].value)})
         = IF th[1].op = "Insert" THEN 1 ELSE 0

\* C13: under fair scheduling every thread gets through all its calls: no
\* call waits forever for a latch
C13_EveryCallReturns ==
  <>Settled


(* ---- the chain of leaves ---- *)
\* the leaves reached from leaf x by next_ptr_, at most fuel of them
RECURSIVE ChainFrom(_, _, _)
ChainFrom(n, x, fuel) ==
  IF x = NULL \/ x \notin DOMAIN n \/ fuel = 0 THEN <<>>
  ELSE <<x>> \o ChainFrom(n, n[x].next_ptr, fuel - 1)
LeafChain(n, r) == ChainFrom(n, LeftmostLeaf(n, r), Cardinality(DOMAIN n))
ChainIsList(n, r, ch) ==
  /\ {ch[i] : i \in DOMAIN ch} = LeavesOf(n, r)
  /\ Len(ch) = Cardinality(LeavesOf(n, r))
  /\ n[ch[Len(ch)]].next_ptr = NULL
  /\ \A i \in DOMAIN ch : \A j \in DOMAIN ch :
        i < j => \A a \in KeysOfLeaf(n[ch[i]]) : \A b \in KeysOfLeaf(n[ch[j]]) : a < b
  /\ \A i \in DOMAIN ch : n[ch[i]].prev_ptr = IF i = 1 THEN NULL ELSE ch[i - 1]

\* C21: after every completed operation, following next from the leftmost
\* leaf visits every leaf exactly once, in ascending key order, and ends at
\* null; prev is the inverse of next along that chain
C21_LeafChain == Completed => ChainIsList(nodes, root_, LeafChain(nodes, root_))

\* a leaf between two others has split and a leaf between two others has
\* been coalesced away
C21_Witness ==
  /\ th[1].pc = "done"
  /\ th[1].op = "Delete"
  /\ th[1].ev \cap {"coalesceleft", "coalesceright"} # {}
  /\ \A k \in LateKeys : amap[k] # {}
  /\ Len(LeafChain(nodes, root_)) > 2


(* ---- which thread holds which latch ---- *)
\* thread t takes a step of a call it is in
Stepping(t) == Running(th[t]) /\ th'[t] # th[t]
HoldsW(t, x) == x \in DOMAIN own[t] /\ own[t][x].w
HoldsAny(t, x) == x \in DOMAIN own[t] /\ (own[t][x].w \/ own[t][x].rd > 0)
RECURSIVE HeldBy(_, _)
HeldBy(t, S) ==
  IF S = {} THEN 0
  ELSE LET x == CHOOSE y \in S : TRUE
       IN (IF own[t][x].w THEN 1 ELSE 0) + own[t][x].rd + HeldBy(t, S \ {x})
\* nodes that exist before and after the step
Kept == DOMAIN nodes \cap DOMAIN nodes'

\* C22: a thread changes the entry list of a node only while it holds the
\* writer latch of that node (the leaf of the call, the siblings and the
\* parent in borrow and coalesce)
C22_EntriesUnderWriterLatch ==
  [][\A t \in Threads : Stepping(t) =>
        \A x \in Kept : nodes'[x].entries # nodes[x].entries => HoldsW(t, x)]_vars


\* the leaves that store the pair (k, v)
HoldersOf(n, k, v) == {x \in DOMAIN n : n[x].leaf /\ HasKeyValue(n[x], k, v)}

\* C23: the step in which a call stores its pair in a leaf or removes it from
\* a leaf works on the leaf that the descent from root_ reaches for the key
\* at that moment
C23_ChangedLeafIsTheLeafOfTheKey ==
  [][\A t \in Threads :
       ( /\ Stepping(t)
         /\ Cardinality(HoldersOf(nodes', th[t].key, th[t].value))
              # Cardinality(HoldersOf(nodes, th[t].key, th[t].value)) )
       => th[t].node = LeafFor(nodes, root_, th[t].key)]_vars


\* C24: the node a descent starts from (node = root_) is a node whose latch
\* the thread holds, and a step takes away only latches that the stepping
\* thread holds
C24_DescentStartsAtLatchedNode ==
  [][\A t \in Threads : Stepping(t) =>
        /\ th[t].pc \in {"FL_root", "FW_root"} => HoldsAny(t, th'[t].node)
        /\ \A x \in Kept :
             /\ nodes[x].w /\ ~nodes'[x].w => own[t][x].w
             /\ nodes'[x].rd < nodes[x].rd => own[t][x].rd > 0]_vars


\* C25: the prev or next pointer of a leaf is changed only by a thread that
\* holds the writer latch of that leaf
C25_LeafLinksUnderWriterLatch ==
  [][\A t \in Threads : Stepping(t) =>
        \A x \in Kept :
          ( /\ nodes[x].leaf
            /\ nodes'[x].leaf
            /\ \/ nodes'[x].next_ptr # nodes[x].next_ptr
               \/ nodes'[x].prev_ptr # nodes[x].prev_ptr )
          => HoldsW(t, x)]_vars


\* C26: root_ is assigned only by a thread that holds the writer latch of the
\* node that root_ was before the assignment
C26_RootAssignedUnderRootLatch ==
  [][root_' # root_ => \E t \in Threads : Stepping(t) /\ HoldsW(t, root_)]_vars


\* below the minimum a non-root node may have
UnderFull(nd) == IF nd.leaf THEN LeafIsUnderflow(nd) ELSE InnerIsUnderflow(nd)

\* C27: at every moment, a node under root_ other than root_ that is below
\* its minimum occupancy is write-latched by a thread
C27_UnderFullNodeIsWriteLatched ==
  \A x \in Subtree(nodes, root_) \ {root_} :
     UnderFull(nodes[x]) => \E t \in Threads : Running(th[t]) /\ HoldsW(t, x)


\* the places of a call at which the thread uses the node it points at
UsesNode(t) == Running(t) /\ t.pc \notin {"FL_spin", "FL_root", "FW_spin", "FW_root"}
\* the pointers stored in node nd
PointersIn(nd) ==
  ({nd.prev_ptr} \cup (IF nd.leaf THEN {nd.next_ptr}
                       ELSE {nd.entries[i][2] : i \in 1..Len(nd.entries)})) \ {NULL}

\* C28: no thread uses a node that has been destroyed, and when no call is
\* in progress no root_, child pointer or sibling pointer refers to a
\* destroyed node
C28_NoUseOfDestroyedNode ==
  /\ \A t \in Threads : UsesNode(th[t]) => th[t].node \in DOMAIN nodes
  /\ (\A t \in Threads : ~Running(th[t])) =>
        /\ root_ \in DOMAIN nodes
        /\ \A x \in DOMAIN nodes : PointersIn(nodes[x]) \subseteq DOMAIN nodes


\* the path of a write descent that has returned: the traceback and the leaf
PathOf(t) == t.tb \o <<t.node>>
\* the first place on path p from which every node up to the parent of the
\* leaf is unsafe (the place of the leaf if its parent is safe)
RECURSIVE UnsafeFrom(_, _, _, _)
UnsafeFrom(n, p, is_delete, i) ==
  IF i = 1 \/ IsSafe(n[p[i - 1]], is_delete) THEN i
  ELSE UnsafeFrom(n, p, is_delete, i - 1)
RetainedChain(n, t) ==
  {PathOf(t)[i] : i \in UnsafeFrom(n, PathOf(t), t.is_delete, Len(PathOf(t)))..Len(PathOf(t))}
\* FindLeafNodeWrite has returned to the call of t
AfterWriteDescent(t) == t.pc \in {"I_check2", "CI_check2", "D_balance"}

\* C29: when FindLeafNodeWrite returns, the writer latches the thread holds
\* are exactly those of the returned leaf and of the chain of unsafe
\* ancestors that ends at the leaf's parent
C29_WriteDescentRetainsUnsafeChain ==
  \A t \in Threads :
     AfterWriteDescent(th[t]) /\ PathOf(th[t]) \in Seq(DOMAIN nodes) =>
        {x \in DOMAIN nodes : HoldsW(t, x)} = RetainedChain(nodes, th[t])


\* inside FindLeafNode
InReadDescent(t) == t.pc \in {"FL_spin", "FL_try", "FL_root", "FL_loop", "FL_relock"}
\* FindLeafNode has returned to the call of t
AfterReadDescent(t) == t.pc \in {"I_check", "CI_check", "D_check", "G_scan", "BK_pos", "EK_pos"}

\* C30: inside FindLeafNode a thread holds at most two latches, and when
\* FindLeafNode has returned it holds exactly one, that of the returned leaf
C30_ReadDescentLatches ==
  \A t \in Threads :
     /\ InReadDescent(th[t]) => HeldBy(t, DOMAIN nodes) <= 2
     /\ AfterReadDescent(th[t]) =>
          /\ HeldBy(t, DOMAIN nodes) = 1
          /\ HoldsAny(t, th[t].node)



(* ---- the latches of a lookup ---- *)
\* C31: a thread inside GetValue holds no writer latch, whether the leaf is
\* root_ or not
C31_GetValueTakesReaderLatchesOnly ==
  \A t \in Threads :
     th[t].op = "GetValue" /\ Running(th[t]) =>
        \A x \in DOMAIN nodes : ~own[t][x].w



(* ---- the levels of the tree ---- *)
\* the root is a new inner node with one separator, above the old root and
\* one new node
RootWasSplit ==
  /\ root_' \notin DOMAIN nodes
  /\ ~nodes'[root_'].leaf
  /\ Len(nodes'[root_'].entries) = 1
  /\ nodes'[root_'].prev_ptr = root_
  /\ nodes'[root_'].entries[1][2] \in DOMAIN nodes' \ DOMAIN nodes
\* the old inner root is gone, the root is the child that was left to it,
\* and every key the old root led to, but the deleted one, is under it
RootCollapsed ==
  /\ ~nodes[root_].leaf
  /\ root_ \notin DOMAIN nodes'
  /\ root_' = nodes[root_].prev_ptr
  /\ root_' \in DOMAIN nodes'
  /\ KeysUnder(nodes, root_) \ {th'[1].key} \subseteq KeysUnder(nodes', root_')

\* C32: the number of levels grows only in an insert that splits the root
\* (the new root then has one separator and two children) and shrinks only
\* in a Delete that leaves the inner root one child, which becomes the root;
\* a call changes it by at most one, Insert never lowers it and Delete never
\* raises it
C32_LevelsChangeAtTheRoot ==
  [][ /\ HeightFrom(nodes', root_') <= HeightFrom(nodes, root_) + 1
      /\ HeightFrom(nodes', root_') >= HeightFrom(nodes, root_) - 1
      /\ HeightFrom(nodes', root_') > HeightFrom(nodes, root_) =>
           th'[1].op \in {"Insert", "ConditionalInsert"} /\ RootWasSplit
      /\ HeightFrom(nodes', root_') < HeightFrom(nodes, root_) =>
           th'[1].op = "Delete" /\ RootCollapsed ]_vars

\* the tree of two levels has gained a level by a split of its inner root
\* and a later Delete has taken the level away again
C32_Witness ==
  /\ th[1].pc = "done"
  /\ th[1].op = "Delete"
  /\ "collapse" \in th[1].ev
  /\ amap[GrownKey(LargestStart)] = {}
  /\ \A k \in TopKeys : amap[k] # {}



(* ---- separators and the smallest key of their subtree ---- *)
\* the smallest key of a non-empty set of keys
Smallest(S) == CHOOSE k \in S : \A j \in S : k <= j
\* the (inner node, entry index) pairs of the tree
SeparatorSlots == {<<x, i>> \in InnersOf(nodes, root_) \X (1..FAN_OUT) : i <= Len(nodes[x].entries)}
SlotKey(sl) == nodes[sl[1]].entries[sl[2]][1]
SlotKeys(sl) == KeysUnder(nodes, nodes[sl[1]].entries[sl[2]][2])

\* C33 as stated: after every completed call each separator equals the
\* smallest key stored in the subtree of its child
C33_SeparatorIsSmallestKey ==
  Completed =>
    \A sl \in SeparatorSlots :
       SlotKeys(sl) # {} /\ SlotKey(sl) = Smallest(SlotKeys(sl))

\* C33 amended: after every completed call each separator is a lower bound
\* of the keys stored in the subtree of its child, and it is the smallest
\* of them whenever the separator's key is still stored in the tree
C33_SeparatorBoundsSubtree ==
  Completed =>
    \A sl \in SeparatorSlots :
       /\ SlotKeys(sl) # {}
       /\ \A k \in SlotKeys(sl) : SlotKey(sl) <= k
       /\ SlotKey(sl) \in KeysUnder(nodes, root_) => SlotKey(sl) = Smallest(SlotKeys(sl))

\* a Delete has borrowed from a right leaf, which rewrote a separator, and
\* the tree has a separator whose key is gone from its subtree next to one
\* that is the smallest key of its subtree
C33_Witness ==
  /\ Returned("Delete")
  /\ "borrowright" \in th[1].ev
  /\ \E sl \in SeparatorSlots : SlotKey(sl) < Smallest(SlotKeys(sl))
  /\ \E sl \in SeparatorSlots : SlotKey(sl) = Smallest(SlotKeys(sl))



(* ---- one parent slot for every node ---- *)
\* the child pointer in slot i of an inner node: prev_ptr_ is slot 0
SlotPtr(nd, i) == IF i = 0 THEN nd.prev_ptr ELSE nd.entries[i][2]
\* the slots (inner node, index) of the tree that point to node y
ParentSlots(n, r, y) ==
  {sl \in InnersOf(n, r) \X (0..FAN_OUT) :
      sl[2] <= Len(n[sl[1]].entries) /\ SlotPtr(n[sl[1]], sl[2]) = y}

\* C34: after every completed call every node under root_ but root_ is
\* pointed to by exactly one slot of one inner node, and root_ by none
C34_OneParentSlot ==
  Completed =>
    \A y \in Subtree(nodes, root_) :
       Cardinality(ParentSlots(nodes, root_, y)) = IF y = root_ THEN 0 ELSE 1

\* leaves were split under an inner node (InsertNodePtr added child
\* pointers) and a Delete has moved a child pointer from a left sibling
C34_Witness ==
  /\ Returned("Delete")
  /\ "borrowleftinner" \in th[1].ev
  /\ \A k \in LateKeys : amap[k] # {}



(* ---- the order of the repairs of Balance ---- *)
\* the children of an inner node from left to right
ChildSeq(nd) == <<nd.prev_ptr>> \o [i \in 1..Len(nd.entries) |-> nd.entries[i][2]]
\* the nodes from x down to the leaf of key
RECURSIVE PathTo(_, _, _)
PathTo(n, x, key) ==
  IF n[x].leaf THEN <<x>> ELSE <<x>> \o PathTo(n, GetNodePtrForKey(n[x], key), key)
\* the neighbour of child c under parent nd, d = -1 to the left, 1 to the right
Neighbour(nd, c, d) ==
  LET cs == ChildSeq(nd)
      i == CHOOSE j \in 1..Len(cs) : cs[j] = c
  IN IF i + d \in 1..Len(cs) THEN cs[i + d] ELSE NULL
\* the node holds more than the minimum: it can give an entry away
AboveMinimum(nd) ==
  IF nd.leaf THEN GetSize(nd) > MIN_KEYS_LEAF_NODE
  ELSE ChildCount(nd) > MIN_PTR_INNER_NODE
\* the repair the stated order chooses for an under-full node with these
\* neighbours
RepairOf(n, left, right, leaf) ==
  IF left # NULL /\ AboveMinimum(n[left])
  THEN IF leaf THEN "borrowleft" ELSE "borrowleftinner"
  ELSE IF right # NULL /\ AboveMinimum(n[right])
  THEN IF leaf THEN "borrowright" ELSE "borrowrightinner"
  ELSE IF left # NULL
  THEN IF leaf THEN "coalesceleft" ELSE "coalesceleftinner"
  ELSE IF leaf THEN "coalesceright" ELSE "coalescerightinner"
Borrows == {"borrowleft", "borrowright", "borrowleftinner", "borrowrightinner"}
Removals == {"coalesceleft", "coalesceright", "coalesceleftinner", "coalescerightinner",
             "collapse"}
\* the repairs the stated order makes on path p when p[i] has become
\* under-full (for the root: has lost an entry)
RECURSIVE RepairsOn(_, _, _, _)
RepairsOn(n, p, i, ev) ==
  IF i = 1 THEN (IF Len(n[p[1]].entries) = 1 THEN ev \cup {"collapse"} ELSE ev)
  ELSE LET rep == RepairOf(n, Neighbour(n[p[i - 1]], p[i], -1),
                           Neighbour(n[p[i - 1]], p[i], 1), n[p[i]].leaf)
       IN IF rep \in Borrows THEN ev \cup {rep}
          ELSE IF i - 1 = 1 \/ ChildCount(n[p[i - 1]]) - 1 < MIN_PTR_INNER_NODE
          THEN RepairsOn(n, p, i - 1, ev \cup {rep})
          ELSE ev \cup {rep}
\* the repairs the stated order makes for Delete(key, value) on tree (n, r)
RepairsFor(n, r, key, value) ==
  LET p == PathTo(n, r, key)
      leaf == n[p[Len(p)]]
  IN IF Len(p) > 1 /\ HasKeyValue(leaf, key, value)
        /\ LeafDeleteEntry(leaf, key, value).entries # leaf.entries
        /\ Len(LeafDeleteEntry(leaf, key, value).entries) < MIN_KEYS_LEAF_NODE
     THEN RepairsOn(n, p, Len(p), {})
     ELSE {}

\* C35: a Delete repairs an under-full node by borrowing from the left
\* sibling if that is above the minimum, else from the right sibling if that
\* is above the minimum, else by coalescing with the left sibling if there is
\* one, else with the right one; a borrow ends the repair, a coalesce removes
\* exactly one node and the repair goes on at the parent
C35_RepairOrder ==
  [][ Returns("Delete") =>
        /\ th'[1].ev \ {"slow"} = RepairsFor(nodes, root_, th'[1].key, th'[1].value)
        /\ Cardinality(DOMAIN nodes) - Cardinality(DOMAIN nodes')
             = Cardinality(th'[1].ev \cap Removals)
        /\ Cardinality(th'[1].ev \cap Borrows) <= 1 ]_vars

\* a leftmost leaf was coalesced with its right sibling and its parent then
\* borrowed a child from the inner node to its right
C35_Witness ==
  /\ Returned("Delete")
  /\ {"coalesceright", "borrowrightinner"} \subseteq th[1].ev



(* ---- the split of an inner node ---- *)
\* sequence s without its j-th element
Without(s, j) == SubSeq(s, 1, j - 1) \o SubSeq(s, j + 1, Len(s))
\* inner node x has lost entries in this step as the statement says: the
\* node right of it under its parent is new, and the entries x kept, the
\* parent's separator with that node's leftmost child, and that node's
\* entries are, in this order, the old entries of x with one new pair
SplitAsStated(x) ==
  \E sl \in ParentSlots(nodes', root_', x) :
     /\ sl[2] + 1 <= Len(nodes'[sl[1]].entries)
     /\ \E up \in {nodes'[sl[1]].entries[sl[2] + 1]} :
        \E all \in {nodes'[x].entries \o <<<<up[1], nodes'[up[2]].prev_ptr>>>>
                      \o nodes'[up[2]].entries} :
          /\ up[2] \notin DOMAIN nodes
          /\ ~nodes'[up[2]].leaf
          /\ Len(nodes'[x].entries) = MIN_KEYS_INNER_NODE
          /\ nodes'[x].prev_ptr = nodes[x].prev_ptr
          /\ Len(all) = FAN_OUT
          /\ \E j \in 1..Len(all) :
                all[j][2] \notin DOMAIN nodes /\ Without(all, j) = nodes[x].entries
          /\ \A j \in 1..(Len(all) - 1) : all[j][1] < all[j + 1][1]

\* C36: when an inner node overflows in an Insert, it keeps its first
\* MIN_KEYS_INNER_NODE separators with their children, the next separator
\* moves to the parent (a new root if the node was the root) and is in
\* neither half, its child is the leftmost child of the new right node and
\* the remaining pairs are the entries of the right node: no child pointer
\* is lost or duplicated; a parent that overflows in turn splits the same way
C36_InnerSplit ==
  [][ Returns("Insert") =>
        \A x \in InnersOf(nodes, root_) :
           /\ x \in DOMAIN nodes'
           /\ Len(nodes'[x].entries) < Len(nodes[x].entries) => SplitAsStated(x)
           /\ Len(nodes[x].entries) = FAN_OUT - 1
                /\ Cardinality(Children(nodes', x) \ DOMAIN nodes) > 0
                => Len(nodes'[x].entries) < Len(nodes[x].entries) ]_vars



\* the last leaf, the full inner node above it and the full inner root above
\* that one were split by one Insert: the tree has a fourth level
C36_Witness ==
  /\ Returned("Insert")
  /\ {"split", "innersplit", "newroot"} \subseteq th[1].ev
  /\ GetHeightOfTree(nodes, root_) = 4



(* ---- Delete of one value of a key that has more ---- *)
\* the key's other values stay: node x is as before but for the value v
\* taken from the value set of key k
OnlyValueRemoved(x, k, v) ==
  /\ DOMAIN nodes' = DOMAIN nodes
  /\ root_' = root_
  /\ \A y \in DOMAIN nodes \ {x} : nodes'[y] = nodes[y]
  /\ nodes'[x].prev_ptr = nodes[x].prev_ptr
  /\ nodes'[x].next_ptr = nodes[x].next_ptr
  /\ Len(nodes'[x].entries) = Len(nodes[x].entries)
  /\ \A i \in 1..Len(nodes[x].entries) :
        /\ nodes'[x].entries[i][1] = nodes[x].entries[i][1]
        /\ nodes'[x].entries[i][2] =
             IF nodes[x].entries[i][1] = k THEN nodes[x].entries[i][2] \ {v}
             ELSE nodes[x].entries[i][2]

\* C37: a Delete of a stored pair (k, v) whose key has other values removes
\* v from the value set and nothing else: the leaf keeps its entries, no
\* node is borrowed from, coalesced or freed and the height stays, also when
\* the leaf is at minimum occupancy; the entry of k goes only when its last
\* value is deleted
C37_DeleteOfOneValue ==
  [][ Returns("Delete") /\ th'[1].ret =>
        IF amap[th'[1].key] # {th'[1].value}
        THEN /\ OnlyValueRemoved(LeafFor(nodes, root_, th'[1].key), th'[1].key, th'[1].value)
             /\ th'[1].ev \cap (Borrows \cup Removals) = {}
             /\ HeightFrom(nodes', root_') = HeightFrom(nodes, root_)
        ELSE /\ th'[1].key \in KeysUnder(nodes, root_)
             /\ th'[1].key \notin KeysUnder(nodes', root_') ]_vars

\* a Delete took one of two values of a key in a leaf that is not the root
\* and holds the minimum number of entries
C37_Witness ==
  /\ Returned("Delete")
  /\ th[1].ret
  /\ amap[th[1].key] # {}
  /\ ~nodes[root_].leaf
  /\ GetSize(nodes[LeafFor(nodes, root_, th[1].key)]) = MIN_KEYS_LEAF_NODE
  /\ "slow" \in th[1].ev



(* ---- the traceback of a descent ---- *)
\* the positions of a call at which FindLeafNode or FindLeafNodeWrite has
\* just returned
AfterDescent == {"I_check", "CI_check", "D_check", "G_scan", "BK_pos", "EK_pos",
                 "I_check2", "CI_check2", "D_balance"}
\* thread t returns from a descent in this step
DescentReturns(t) == th[t].pc \notin AfterDescent /\ th'[t].pc \in AfterDescent

\* C38: when a descent returns leaf L, the traceback holds the inner nodes
\* on the path from root_ to the parent of L, root_ at the bottom and the
\* parent on top; and the assertion of InsertNodePtr (empty stack when the
\* current node is the root) never fails
C38_TracebackIsThePathFromTheRoot ==
  [][ \A t \in Threads :
        /\ DescentReturns(t) =>
             th'[t].tb \o <<th'[t].node>> = PathTo(nodes', root_', th'[t].key)
        /\ th'[t].fault # "assert" ]_vars



(* ---- the fast path of Insert and ConditionalInsert ---- *)
\* thread t ends, in this step, an Insert or ConditionalInsert that has
\* stored its pair without the second descent
FastPathInsert(t) ==
  /\ th[t].pc # "done"
  /\ th'[t].pc = "done"
  /\ th'[t].op \in {"Insert", "ConditionalInsert"}
  /\ th'[t].ret
  /\ "slow" \notin th'[t].ev
\* the step has written leaf x and nothing else; x has at most one pair
\* more, keeps its links and stays below FAN_OUT entries
OnlyLeafWritten(x) ==
  /\ nodes[x].leaf
  /\ root_' = root_
  /\ DOMAIN nodes' = DOMAIN nodes
  /\ \A y \in DOMAIN nodes \ {x} :
        /\ nodes'[y].entries = nodes[y].entries
        /\ nodes'[y].prev_ptr = nodes[y].prev_ptr
        /\ nodes'[y].next_ptr = nodes[y].next_ptr
  /\ nodes'[x].leaf
  /\ nodes'[x].prev_ptr = nodes[x].prev_ptr
  /\ nodes'[x].next_ptr = nodes[x].next_ptr
  /\ PairsIn(nodes'[x]) \in {PairsIn(nodes[x]), PairsIn(nodes[x]) + 1}
  /\ GetSize(nodes'[x]) < FAN_OUT

\* C39: an Insert or ConditionalInsert that takes the fast path changes the
\* one leaf it has latched and nothing else: the leaf ends with fewer than
\* FAN_OUT entries, it is not split, and no inner node, no sibling pointer
\* and not root_ is written
C39_FastPathWritesOneLeaf ==
  [][ \A t \in Threads :
        FastPathInsert(t) =>
          /\ th'[t].ev = {}
          /\ \E x \in DOMAIN nodes :
                /\ OnlyLeafWritten(x)
                /\ th'[t].op = "Insert" => PairsIn(nodes'[x]) = PairsIn(nodes[x]) + 1 ]_vars

\* a fast-path Insert has filled a leaf to FAN_OUT - 1 entries
C39_Witness ==
  /\ Returned("Insert")
  /\ th[1].ret
  /\ th[1].ev = {}
  /\ GetSize(nodes[LeafFor(nodes, root_, th[1].key)]) = FAN_OUT - 1



(* ---- ConditionalInsert of a pair that is stored ---- *)
\* C40: ConditionalInsert(k, v, p) called when (k, v) is stored and no
\* value stored under k satisfies p returns true with predicate_satisfied
\* false and leaves every node and root_ as they were: the value set of k
\* does not grow, no entry is added and no leaf is split
C40_ConditionalInsertOfStoredPair ==
  [][ /\ Returns("ConditionalInsert")
      /\ th'[1].value \in Lookup(nodes, root_, th'[1].key)
      /\ \A w \in Lookup(nodes, root_, th'[1].key) : ~PredHolds(th'[1].predicate, w)
      => /\ th'[1].ret
         /\ ~th'[1].psat
         /\ th'[1].ev \subseteq {"slow"}
         /\ nodes' = nodes
         /\ root_' = root_
         /\ amap' = amap ]_vars

\* the pair was stored in a leaf with FAN_OUT - 1 entries: the call went
\* through the second descent and still added nothing
C40_Witness ==
  /\ Returned("ConditionalInsert")
  /\ th[1].ret
  /\ ~th[1].psat
  /\ th[1].ev = {"slow"}
  /\ amap[th[1].key] = {th[1].value}
  /\ GetSize(nodes[LeafFor(nodes, root_, th[1].key)]) = FAN_OUT - 1

====
